---- MODULE Spec2Model ----
(***************************************************************************)
(* Turn-one action search and mulligan advisor of src/src/App.jsx:        *)
(* cost model, mana pool, action generator, dfs, scoreState and           *)
(* analyzeMulligan.                                                        *)
(*                                                                         *)
(* A mana-cost string is a sequence of symbol groups (the matches of      *)
(* /\{([^}]+)\}/g); a group is the sequence of its characters.            *)
(* A type line is the set of lower-case keywords it contains.             *)
(***************************************************************************)
EXTENDS Integers, Sequences, FiniteSets, Bags, TLC

VARIABLES
  hand,     \* the drawn hand given to analyzeMulligan: a sequence of card names
  deck,     \* deckIndex.hasInMain: the set of names in the main deck
  pc,       \* position of the evaluation: "start", "run", "done", "error" (uncaught exception)
  sim,      \* simulateTurn1's locals: battlefieldBase, nonLandsBase, landChoices
  branch,   \* index into landChoices of the next root branch
  stack,    \* the dfs call stack, innermost call last
  seen,     \* the visited-key set of the current root branch
  best,     \* the best record
  nid,      \* the counter n of uniqId
  scored,   \* number of scoreState calls made in the current root branch
  result,   \* the record returned by analyzeMulligan
  fin,      \* arguments of a direct call of a pure function
  fout,     \* its return value
  scores,   \* history: the score and tier scoreState returned for every state scored in this evaluation
  previous, \* the result analyzeMulligan returned for this hand earlier in the session
  keyScores,    \* history: key, score and tier of every state scored in the current root branch
  order,        \* the order in which dfs lists the actions of a node: "castsFirst" is the code's
  cutoff,       \* whether dfs returns at depth 18: TRUE is the code's
  previousBest, \* score and tier of the best record of the evaluation before a change of order or cutoff
  mainConfig,   \* App state mainConfig: the mainboard entries
  sideConfig,   \* App state sideConfig: the sideboard entries
  selectedFlex  \* App state selectedFlex: the entry whose flex modal is open, or NoSelection

variantVars == <<order, cutoff, previousBest>>

editorVars == <<mainConfig, sideConfig, selectedFlex>>

vars == <<hand, deck, pc, sim, branch, stack, seen, best, nid, scored, result, fin, fout, scores, previous,
          keyScores, variantVars, editorVars>>

searchVars == <<hand, deck, pc, sim, branch, stack, seen, best, nid, scored, result>>

(* ------------------------------ bounds -------------------------------- *)

MaxPoolTotal == 3

MaxReqTotal == 3

MaxCore == 3

MaxStat == 3

\* Symbol groups per mana-cost string in the direct calls of the parsers.
MaxGroups == 2

\* Mainboard entries in the deck editor.
MaxEntries == 2

\* Flex options of one entry in the deck editor.
MaxOptions == 2

(* ------------------------- program constants -------------------------- *)

HandSize == 7

DepthLimit == 18

LineLimit == 12

(* --------------------------- small helpers ---------------------------- *)

Min(a, b) == IF a < b THEN a ELSE b

Max(a, b) == IF a > b THEN a ELSE b

Range(s) == {s[i] : i \in 1..Len(s)}

RECURSIVE Repeat(_, _)
Repeat(x, n) == IF n <= 0 THEN <<>> ELSE <<x>> \o Repeat(x, n - 1)

RECURSIVE SeqToBag(_)
SeqToBag(s) == IF s = <<>> THEN EmptyBag ELSE SetToBag({Head(s)}) (+) SeqToBag(Tail(s))

CountIf(s, T(_)) == Len(SelectSeq(s, T))

(* ------------------------- Cost & colour model ------------------------ *)

DigitChars == <<"0", "1", "2", "3", "4", "5", "6", "7", "8", "9">>

IsDigit(ch) == \E i \in 1..10 : DigitChars[i] = ch

DigitVal(ch) == (CHOOSE i \in 1..10 : DigitChars[i] = ch) - 1

\* /^\d+$/.test(content)
AllDigits(g) == Len(g) > 0 /\ \A i \in 1..Len(g) : IsDigit(g[i])

RECURSIVE ParseInt(_)
ParseInt(g) == IF g = <<>> THEN 0 ELSE 10 * ParseInt(SubSeq(g, 1, Len(g) - 1)) + DigitVal(g[Len(g)])

\* content.includes("/")
HasSlash(g) == \E i \in 1..Len(g) : g[i] = "/"

\* const [a] = content.split("/")
BeforeSlash(g) == SubSeq(g, 1, (CHOOSE i \in 1..Len(g) : g[i] = "/" /\ \A j \in 1..(i - 1) : g[j] # "/") - 1)

\* JavaScript values a manaCost can be: a string, undefined/"" (falsy) or an object.
Str(groups) == [js |-> "string", groups |-> groups]

NoCost == [js |-> "falsy", groups |-> <<>>]

ObjCost == [js |-> "object", groups |-> <<>>]

\* The variable symbols X, Y, Z are counted as one mana.
GroupCmc_mut(g) ==
  IF AllDigits(g) THEN ParseInt(g)
  ELSE IF HasSlash(g) THEN (IF BeforeSlash(g) = <<"2">> THEN 2 ELSE 1)
  ELSE 1

GroupCmc(g) ==
  IF AllDigits(g) THEN ParseInt(g)
  ELSE IF HasSlash(g) THEN (IF BeforeSlash(g) = <<"2">> THEN 2 ELSE 1)
  ELSE IF g \in {<<"X">>, <<"Y">>, <<"Z">>} THEN 0
  ELSE 1

RECURSIVE SumCmc(_)
SumCmc(gs) == IF gs = <<>> THEN 0 ELSE GroupCmc(Head(gs)) + SumCmc(Tail(gs))

parseCmc(manaCost) == IF manaCost.js = "falsy" THEN 0 ELSE SumCmc(manaCost.groups)

ZeroReq == [generic |-> 0, W |-> 0, U |-> 0, B |-> 0, R |-> 0, G |-> 0, C |-> 0]

Colors == <<"W", "U", "B", "R", "G">>

\* The final else branch is dropped: an unknown group adds nothing.
AddGroupReq_mut(req, g) ==
  IF AllDigits(g) THEN [req EXCEPT !.generic = @ + ParseInt(g)]
  ELSE IF g = <<"C">> THEN [req EXCEPT !.C = @ + 1]
  ELSE IF HasSlash(g) THEN [req EXCEPT !.generic = @ + 1]
  ELSE IF g \in {<<"W">>, <<"U">>, <<"B">>, <<"R">>, <<"G">>} THEN [req EXCEPT ![g[1]] = @ + 1]
  ELSE req

AddGroupReq(req, g) ==
  IF AllDigits(g) THEN [req EXCEPT !.generic = @ + ParseInt(g)]
  ELSE IF g \in {<<"X">>, <<"Y">>, <<"Z">>} THEN req
  ELSE IF g = <<"C">> THEN [req EXCEPT !.C = @ + 1]
  ELSE IF HasSlash(g) THEN [req EXCEPT !.generic = @ + 1]
  ELSE IF g = <<"W">> THEN [req EXCEPT !.W = @ + 1]
  ELSE IF g = <<"U">> THEN [req EXCEPT !.U = @ + 1]
  ELSE IF g = <<"B">> THEN [req EXCEPT !.B = @ + 1]
  ELSE IF g = <<"R">> THEN [req EXCEPT !.R = @ + 1]
  ELSE IF g = <<"G">> THEN [req EXCEPT !.G = @ + 1]
  ELSE [req EXCEPT !.generic = @ + 1]

RECURSIVE FoldReq(_, _)
FoldReq(req, gs) == IF gs = <<>> THEN req ELSE FoldReq(AddGroupReq(req, Head(gs)), Tail(gs))

\* manaCost.match on an object is not a function: the call throws a TypeError.
ParseThrows(manaCost) == manaCost.js = "object"

parseManaCostReq(manaCost) == IF manaCost.js = "falsy" THEN ZeroReq ELSE FoldReq(ZeroReq, manaCost.groups)

(* ------------------------------ Mana pool ----------------------------- *)

emptyPool == [W |-> 0, U |-> 0, B |-> 0, R |-> 0, G |-> 0, C |-> 0, flex |-> 0]

PoolFields == {"W", "U", "B", "R", "G", "C", "flex"}

addPool(p, k, n) == [p EXCEPT ![k] = @ + n]

sumMana(p) == p.W + p.U + p.B + p.R + p.G + p.C + p.flex

\* The flex mana a color takes is not spent: the next color can take it again.
CanPayColorStep_mut(acc, col, req) ==
  IF ~acc.ok \/ req[col] = 0 THEN acc
  ELSE LET fromCol == Min(acc.p[col], req[col])
           remain == req[col] - fromCol
           p1 == [acc.p EXCEPT ![col] = @ - fromCol]
       IN IF remain > 0
            THEN (IF p1.flex < remain THEN [ok |-> FALSE, p |-> p1]
                  ELSE [ok |-> TRUE, p |-> p1])
            ELSE [ok |-> TRUE, p |-> p1]

\* One iteration of the colored loop of canPay: ok turns FALSE at the early return.
CanPayColorStep(acc, col, req) ==
  IF ~acc.ok \/ req[col] = 0 THEN acc
  ELSE LET fromCol == Min(acc.p[col], req[col])
           remain == req[col] - fromCol
           p1 == [acc.p EXCEPT ![col] = @ - fromCol]
       IN IF remain > 0
            THEN (IF p1.flex < remain THEN [ok |-> FALSE, p |-> p1]
                  ELSE [ok |-> TRUE, p |-> [p1 EXCEPT !.flex = @ - remain]])
            ELSE [ok |-> TRUE, p |-> p1]

RECURSIVE CanPayColors(_, _, _)
CanPayColors(acc, cols, req) ==
  IF cols = <<>> THEN acc ELSE CanPayColors(CanPayColorStep(acc, Head(cols), req), Tail(cols), req)

canPayReq(pool, req) ==
  IF pool.C < req.C THEN FALSE
  ELSE LET acc == CanPayColors([ok |-> TRUE, p |-> [pool EXCEPT !.C = @ - req.C]], Colors, req)
       IN acc.ok /\ sumMana(acc.p) >= req.generic

canPay(pool, manaCost) == canPayReq(pool, parseManaCostReq(manaCost))

\* One iteration of the colored loop of pay (no check).
PayColorStep(p, col, req) ==
  IF req[col] = 0 THEN p
  ELSE LET fromCol == Min(p[col], req[col])
           remain == req[col] - fromCol
           p1 == [p EXCEPT ![col] = @ - fromCol]
       IN IF remain > 0 THEN [p1 EXCEPT !.flex = @ - remain] ELSE p1

RECURSIVE PayColors(_, _, _)
PayColors(p, cols, req) ==
  IF cols = <<>> THEN p ELSE PayColors(PayColorStep(p, Head(cols), req), Tail(cols), req)

\* take without the Math.min clamp.
Take_mut(acc, k) == [p |-> [acc.p EXCEPT ![k] = @ - acc.g], g |-> 0]

\* take(k): n = Math.min(p[k], g); p[k] -= n; g -= n
Take(acc, k) ==
  LET n == Min(acc.p[k], acc.g)
  IN [p |-> [acc.p EXCEPT ![k] = @ - n], g |-> acc.g - n]

\* flex is spent before strict-colorless mana.
TakeOrder_mut == <<"flex", "C", "W", "U", "B", "R", "G">>

TakeOrder == <<"C", "flex", "W", "U", "B", "R", "G">>

RECURSIVE TakeAll(_, _)
TakeAll(acc, ks) == IF ks = <<>> THEN acc ELSE TakeAll(Take(acc, Head(ks)), Tail(ks))

payReq(pool, req) ==
  LET p0 == [pool EXCEPT !.C = @ - req.C]
      p1 == PayColors(p0, Colors, req)
  IN TakeAll([p |-> p1, g |-> req.generic], TakeOrder).p

pay(pool, manaCost) == payReq(pool, parseManaCostReq(manaCost))

NonNegative(p) == \A k \in PoolFields : p[k] >= 0

(* ------------------------ card data (deckData) ------------------------ *)

D(n) == <<DigitChars[n + 1]>>

S(ch) == <<ch>>

Phy(ch) == <<ch, "/", "P">>

Card(cost, type) == [manaCost |-> cost, typeLine |-> type]

Catalog ==
     ("City of Brass" :> Card(NoCost, {"land"}))
  @@ ("Mana Confluence" :> Card(NoCost, {"land"}))
  @@ ("Tolarian Academy" :> Card(NoCost, {"land"}))
  @@ ("Starting Town" :> Card(NoCost, {"land"}))
  @@ ("Strip Mine" :> Card(NoCost, {"land"}))
  @@ ("Island" :> Card(NoCost, {"land"}))
  @@ ("Swamp" :> Card(NoCost, {"land"}))
  @@ ("Seat of the Synod" :> Card(NoCost, {"artifact", "land"}))
  @@ ("Mox Sapphire" :> Card(Str(<<D(0)>>), {"artifact"}))
  @@ ("Mox Jet" :> Card(Str(<<D(0)>>), {"artifact"}))
  @@ ("Mox Pearl" :> Card(Str(<<D(0)>>), {"artifact"}))
  @@ ("Mox Opal" :> Card(Str(<<D(0)>>), {"artifact"}))
  @@ ("Black Lotus" :> Card(Str(<<D(0)>>), {"artifact"}))
  @@ ("Lotus Petal" :> Card(Str(<<D(0)>>), {"artifact"}))
  @@ ("Mana Crypt" :> Card(Str(<<D(0)>>), {"artifact"}))
  @@ ("Sol Ring" :> Card(Str(<<D(1)>>), {"artifact"}))
  @@ ("Mana Vault" :> Card(Str(<<D(1)>>), {"artifact"}))
  @@ ("Voltaic Key" :> Card(Str(<<D(1)>>), {"artifact"}))
  @@ ("Manifold Key" :> Card(Str(<<D(1)>>), {"artifact"}))
  @@ ("Vexing Bauble" :> Card(Str(<<D(1)>>), {"artifact"}))
  @@ ("Time Vault" :> Card(Str(<<D(2)>>), {"artifact"}))
  @@ ("Trinisphere" :> Card(Str(<<D(3)>>), {"artifact"}))
  @@ ("Blightsteel Colossus" :> Card(Str(<< <<"1", "2">> >>), {"artifact", "creature"}))
  @@ ("Tinker" :> Card(Str(<<D(2), S("U")>>), {"sorcery"}))
  @@ ("Ancestral Recall" :> Card(Str(<<S("U")>>), {"instant"}))
  @@ ("Brainstorm" :> Card(Str(<<S("U")>>), {"instant"}))
  @@ ("Vampiric Tutor" :> Card(Str(<<S("B")>>), {"instant"}))
  @@ ("Mystical Tutor" :> Card(Str(<<S("U")>>), {"instant"}))
  @@ ("Demonic Tutor" :> Card(Str(<<D(1), S("B")>>), {"sorcery"}))
  @@ ("Crop Rotation" :> Card(Str(<<S("G")>>), {"instant"}))
  @@ ("Paradoxical Outcome" :> Card(Str(<<D(3), S("U")>>), {"instant"}))
  @@ ("Balance" :> Card(Str(<<D(1), S("W")>>), {"sorcery"}))
  @@ ("Timetwister" :> Card(Str(<<D(2), S("U")>>), {"sorcery"}))
  @@ ("Time Walk" :> Card(Str(<<D(1), S("U")>>), {"sorcery"}))
  @@ ("Force of Will" :> Card(Str(<<D(3), S("U"), S("U")>>), {"instant"}))
  @@ ("Sundering Titan" :> Card(Str(<<D(8)>>), {"artifact", "creature"}))
  @@ ("Hurkyl's Recall" :> Card(Str(<<D(1), S("U")>>), {"instant"}))
  @@ ("Gitaxian Probe" :> Card(Str(<<Phy("U")>>), {"sorcery"}))
  @@ ("Mental Misstep" :> Card(Str(<<Phy("U")>>), {"instant"}))
  @@ ("Trinket Mage" :> Card(Str(<<D(2), S("U")>>), {"creature"}))
  @@ ("Karn, the Great Creator" :> Card(Str(<<D(4)>>), {"planeswalker"}))
  @@ ("Narset, Parter of Veils" :> Card(Str(<<D(1), S("U"), S("U")>>), {"planeswalker"}))
  @@ ("Tezzeret the Seeker" :> Card(Str(<<D(3), S("U"), S("U")>>), {"planeswalker"}))
  @@ ("Tezzeret, Cruel Captain" :> Card(Str(<<D(3)>>), {"planeswalker"}))

CardNames == DOMAIN Catalog

manaCostOf(name) == Catalog[name].manaCost

isLand(name) == "land" \in Catalog[name].typeLine

isArtifact(name) == "artifact" \in Catalog[name].typeLine

isPlaneswalker(name) == "planeswalker" \in Catalog[name].typeLine

\* cost.includes("{U}")
HasBluePip(name) == \E i \in 1..Len(manaCostOf(name).groups) : manaCostOf(name).groups[i] = <<"U">>

(* ----------------- Permanent / resource classifier -------------------- *)

\* Every land outside the special cases taps for any colour.
getLandKind_mut(name) ==
  IF name = "Tolarian Academy" THEN "academy"
  ELSE IF name = "Starting Town" THEN "starting_town"
  ELSE "any_color_life"

getLandKind(name) ==
  IF name = "Tolarian Academy" THEN "academy"
  ELSE IF name = "City of Brass" THEN "any_color_life"
  ELSE IF name = "Mana Confluence" THEN "any_color_life"
  ELSE IF name = "Starting Town" THEN "starting_town"
  ELSE "colorless"

\* name.startsWith("Mox ") for the names of the card data
StartsWithMox(name) == name \in {"Mox Sapphire", "Mox Jet", "Mox Pearl", "Mox Ruby", "Mox Emerald", "Mox Opal"}

manaPermanentKind(name) ==
  IF StartsWithMox(name) THEN "mox"
  ELSE IF name = "Mox Opal" THEN "opal"
  ELSE IF name = "Mana Crypt" THEN "crypt"
  ELSE IF name = "Sol Ring" THEN "ring"
  ELSE IF name = "Mana Vault" THEN "vault"
  ELSE "null"

getMoxColor(name) ==
  IF name = "Mox Pearl" THEN "W"
  ELSE IF name = "Mox Sapphire" THEN "U"
  ELSE IF name = "Mox Jet" THEN "B"
  ELSE IF name = "Mox Ruby" THEN "R"
  ELSE IF name = "Mox Emerald" THEN "G"
  ELSE "null"

isOneShotMana(name) == name = "Black Lotus" \/ name = "Lotus Petal"

\* Black Lotus yields as much as Lotus Petal.
oneShotYield_mut(name) ==
  IF name = "Black Lotus" THEN 1
  ELSE IF name = "Lotus Petal" THEN 1
  ELSE 0

oneShotYield(name) ==
  IF name = "Black Lotus" THEN 3
  ELSE IF name = "Lotus Petal" THEN 1
  ELSE 0

IMPORTANT_CASTS ==
  {"Sol Ring", "Mana Vault", "Sensei's Divining Top", "Vexing Bauble", "Voltaic Key",
   "Manifold Key", "Time Vault", "Crop Rotation", "Tinker", "Karn, the Great Creator",
   "Narset, Parter of Veils", "Trinisphere", "Paradoxical Outcome", "Tezzeret the Seeker",
   "Tezzeret, Cruel Captain", "Trinket Mage", "Balance", "Timetwister", "Ancestral Recall",
   "Brainstorm", "Ponder", "Mystical Tutor", "Vampiric Tutor", "Demonic Tutor"}

INTERACTION ==
  {"Force of Will", "Force of Negation", "Flusterstorm", "Mental Misstep", "Pyroblast",
   "Veil of Summer", "Cabal Therapy"}

isSelectionSpell(name) ==
  name \in {"Ancestral Recall", "Brainstorm", "Ponder", "Gitaxian Probe", "Mystical Tutor",
            "Vampiric Tutor", "Demonic Tutor", "Sensei's Divining Top", "Paradoxical Outcome"}

isPayoff(name) ==
  name \in {"Tinker", "Karn, the Great Creator", "Narset, Parter of Veils", "Trinisphere",
            "Time Vault", "Tezzeret the Seeker", "Tezzeret, Cruel Captain", "Paradoxical Outcome"}

forcedFree == {"Gitaxian Probe", "Mental Misstep"}

(* --------------------------- Scoring heuristic ------------------------ *)

\* SearchState: [hand : Seq(name), battlefield : Seq([name, id, tapped]), pool,
\*               landName, cast : Seq(name), notes : Seq(note)]

BfNames(state) == {state.battlefield[i].name : i \in 1..Len(state.battlefield)}

HandNames(state) == Range(state.hand)

PermIsArtifact(c) == isArtifact(c.name)

\* Only the untapped artifacts are counted.
getArtifactsCount_mut(battlefield) == CountIf(battlefield, LAMBDA c : PermIsArtifact(c) /\ ~c.tapped)

getArtifactsCount(battlefield) == CountIf(battlefield, PermIsArtifact)

NoteTinkerBlightsteel == <<"Tinker -> Blightsteel Colossus (artifact to sacrifice assumed)">>

IsManaArtifact(c) ==
  isArtifact(c.name) /\ manaPermanentKind(c.name) \in {"mox", "crypt", "ring", "vault", "opal"}

IsPermanentMana(c) ==
  (isArtifact(c.name) \/ isLand(c.name))
  /\ (manaPermanentKind(c.name) # "null" \/ isLand(c.name) \/ isOneShotMana(c.name))

Flags(state) ==
  LET names == BfNames(state)
      handNames == HandNames(state)
      poolTotal == sumMana(state.pool)
      hasVault == "Time Vault" \in names
      hasKey == "Voltaic Key" \in names \/ "Manifold Key" \in names
      hasTezzCruel == "Tezzeret, Cruel Captain" \in names
      hasTezzSeeker == "Tezzeret the Seeker" \in names
      balanceCombo ==
        /\ "Balance" \in handNames
        /\ Len(state.cast) >= 4
        /\ Len(state.hand) <= 3
        /\ poolTotal >= 2
        /\ state.pool.W >= 1
      trinketBauble ==
        /\ "Trinket Mage" \in handNames
        /\ "Trinket Mage" \notin names
        /\ "Vexing Bauble" \notin names
        /\ "Vexing Bauble" \notin handNames
        /\ poolTotal >= 4
        /\ state.pool.U >= 1
      tezzBauble ==
        /\ "Tezzeret, Cruel Captain" \in handNames
        /\ "Tezzeret, Cruel Captain" \notin names
        /\ "Vexing Bauble" \notin names
        /\ "Vexing Bauble" \notin handNames
        /\ poolTotal >= 4
  IN [infiniteTurns |->
        hasVault /\ (hasTezzCruel \/ hasTezzSeeker \/ (hasKey /\ (poolTotal >= 1 \/ hasTezzSeeker))),
      tinkerWin |-> \E i \in 1..Len(state.notes) : state.notes[i] = NoteTinkerBlightsteel,
      trinketVaultWin |->
        /\ "Trinket Mage" \in handNames
        /\ "Time Vault" \in handNames
        /\ "Trinket Mage" \notin names
        /\ "Time Vault" \notin names
        /\ poolTotal >= 7,
      demonicVaultWin |->
        /\ "Demonic Tutor" \in handNames
        /\ "Time Vault" \in handNames
        /\ "Time Vault" \notin names
        /\ "Voltaic Key" \notin handNames
        /\ "Manifold Key" \notin handNames
        /\ poolTotal >= 5
        /\ state.pool.B >= 1,
      vaultKeyForceBackup |->
        /\ ("Time Vault" \in handNames \/ "Time Vault" \in names)
        /\ ("Voltaic Key" \in handNames \/ "Manifold Key" \in handNames
            \/ "Voltaic Key" \in names \/ "Manifold Key" \in names)
        /\ "Demonic Tutor" \in handNames
        /\ "Force of Will" \notin handNames
        /\ \E i \in 1..Len(state.hand) :
              HasBluePip(state.hand[i]) /\ state.hand[i] # "Demonic Tutor"
        /\ poolTotal >= 5
        /\ state.pool.B >= 1,
      tezzTimeWalkWin |->
        /\ ("Tezzeret the Seeker" \in handNames \/ "Tezzeret the Seeker" \in names)
        /\ "Time Walk" \in handNames
        /\ state.pool.U >= 2
        /\ poolTotal >= 5
        /\ getArtifactsCount(state.battlefield) >= 4
        /\ CountIf(state.battlefield, IsManaArtifact) >= 2,
      big |->
        \/ "Karn, the Great Creator" \in names
        \/ "Narset, Parter of Veils" \in names
        \/ "Tezzeret, Cruel Captain" \in names
        \/ "Trinisphere" \in names
        \/ "Vexing Bauble" \in names
        \/ "Paradoxical Outcome" \in Range(state.cast)
        \/ "Timetwister" \in names
        \/ balanceCombo
        \/ trinketBauble
        \/ tezzBauble,
      castSelection |-> \E i \in 1..Len(state.cast) : isSelectionSpell(state.cast[i]),
      ancestralWithForce |->
        /\ "Ancestral Recall" \in handNames
        /\ "Force of Will" \in handNames
        /\ poolTotal >= 1
        /\ state.pool.U >= 1,
      tutorForTinker |->
        /\ ("Mystical Tutor" \in handNames \/ "Vampiric Tutor" \in handNames)
        /\ "Tinker" \notin handNames
        /\ getArtifactsCount(state.battlefield) >= 3
        /\ \/ ("Mystical Tutor" \in handNames /\ state.pool.U >= 1 /\ poolTotal >= 4)
           \/ ("Vampiric Tutor" \in handNames /\ state.pool.B >= 1 /\ poolTotal >= 3)]

\* The Demonic Tutor + Time Vault detector is left out of the tier-3 test.
IsTier3_mut(f) ==
  f.infiniteTurns \/ f.tinkerWin \/ f.trinketVaultWin \/ f.vaultKeyForceBackup \/ f.tezzTimeWalkWin

IsTier3(f) ==
  f.infiniteTurns \/ f.tinkerWin \/ f.trinketVaultWin \/ f.demonicVaultWin
  \/ f.vaultKeyForceBackup \/ f.tezzTimeWalkWin

\* The tier-3 detectors are worth 600.
ScoreOf_mut(f, poolTotal, permanentMana) ==
    (IF IsTier3(f) THEN 600 ELSE 0)
  + (IF f.big THEN 200 ELSE 0)
  + (IF f.ancestralWithForce THEN 150 ELSE 0)
  + (IF f.tutorForTinker THEN 120 ELSE 0)
  + (IF f.castSelection THEN 60 ELSE 0)
  + Min(60, poolTotal * 10)
  + Min(30, permanentMana * 4)

ScoreOf(f, poolTotal, permanentMana) ==
    (IF IsTier3(f) THEN 1000 ELSE 0)
  + (IF f.big THEN 200 ELSE 0)
  + (IF f.ancestralWithForce THEN 150 ELSE 0)
  + (IF f.tutorForTinker THEN 120 ELSE 0)
  + (IF f.castSelection THEN 60 ELSE 0)
  + Min(60, poolTotal * 10)
  + Min(30, permanentMana * 4)

TierOf(f, poolTotal) ==
  IF IsTier3(f) THEN 3
  ELSE IF f.big THEN 2
  ELSE IF f.castSelection \/ poolTotal >= 2 THEN 1
  ELSE 0

scoreState(state) ==
  LET f == Flags(state)
      poolTotal == sumMana(state.pool)
      permanentMana == CountIf(state.battlefield, IsPermanentMana)
  IN [score |-> ScoreOf(f, poolTotal, permanentMana), tier |-> TierOf(f, poolTotal), flags |-> f]

(* ---------------------------- Action generator ------------------------ *)

\* An action is the data its closure captures: the permanent (id, name) and yield
\* of a tap source, or the hand card (position i in the hand it was generated from).
TapAction(mode, perm, field, n) ==
  [kind |-> "tap", mode |-> mode, id |-> perm.id, name |-> perm.name, field |-> field, n |-> n, i |-> 0]

CastAction(name, i) ==
  [kind |-> "cast", mode |-> "cast", id |-> 0, name |-> name, field |-> "none", n |-> 0, i |-> i]

\* Starting Town has a single action, for C.
SourcesOf_mut(perm, artifactsCount) ==
  IF perm.tapped THEN <<>>
  ELSE IF isLand(perm.name) THEN
    (IF getLandKind(perm.name) = "academy" THEN <<TapAction("academy", perm, "U", 0)>>
     ELSE IF perm.name = "Starting Town" THEN <<TapAction("townC", perm, "C", 1)>>
     ELSE IF getLandKind(perm.name) = "any_color_life" THEN <<TapAction("anyColor", perm, "flex", 1)>>
     ELSE <<TapAction("landC", perm, "C", 1)>>)
  ELSE IF isOneShotMana(perm.name) THEN <<TapAction("oneShot", perm, "flex", oneShotYield(perm.name))>>
  ELSE IF manaPermanentKind(perm.name) = "null" THEN <<>>
  ELSE IF manaPermanentKind(perm.name) = "mox" THEN
    (IF getMoxColor(perm.name) = "null" THEN <<>>
     ELSE <<TapAction("mox", perm, getMoxColor(perm.name), 1)>>)
  ELSE IF manaPermanentKind(perm.name) = "opal" THEN
    (IF artifactsCount < 3 THEN <<>> ELSE <<TapAction("opal", perm, "flex", 1)>>)
  ELSE IF manaPermanentKind(perm.name) = "crypt" THEN <<TapAction("crypt", perm, "C", 2)>>
  ELSE IF manaPermanentKind(perm.name) = "ring" THEN <<TapAction("ring", perm, "C", 2)>>
  ELSE IF manaPermanentKind(perm.name) = "vault" THEN <<TapAction("vault", perm, "C", 3)>>
  ELSE <<>>

\* The sources one battlefield permanent contributes (body of the for loop).
SourcesOf(perm, artifactsCount) ==
  IF perm.tapped THEN <<>>
  ELSE IF isLand(perm.name) THEN
    (IF getLandKind(perm.name) = "academy" THEN <<TapAction("academy", perm, "U", 0)>>
     ELSE IF perm.name = "Starting Town"
       THEN <<TapAction("townC", perm, "C", 1), TapAction("townFlex", perm, "flex", 1)>>
     ELSE IF getLandKind(perm.name) = "any_color_life" THEN <<TapAction("anyColor", perm, "flex", 1)>>
     ELSE <<TapAction("landC", perm, "C", 1)>>)
  ELSE IF isOneShotMana(perm.name) THEN <<TapAction("oneShot", perm, "flex", oneShotYield(perm.name))>>
  ELSE IF manaPermanentKind(perm.name) = "null" THEN <<>>
  ELSE IF manaPermanentKind(perm.name) = "mox" THEN
    (IF getMoxColor(perm.name) = "null" THEN <<>>
     ELSE <<TapAction("mox", perm, getMoxColor(perm.name), 1)>>)
  ELSE IF manaPermanentKind(perm.name) = "opal" THEN
    (IF artifactsCount < 3 THEN <<>> ELSE <<TapAction("opal", perm, "flex", 1)>>)
  ELSE IF manaPermanentKind(perm.name) = "crypt" THEN <<TapAction("crypt", perm, "C", 2)>>
  ELSE IF manaPermanentKind(perm.name) = "ring" THEN <<TapAction("ring", perm, "C", 2)>>
  ELSE IF manaPermanentKind(perm.name) = "vault" THEN <<TapAction("vault", perm, "C", 3)>>
  ELSE <<>>

RECURSIVE SourcesFrom(_, _, _)
SourcesFrom(battlefield, k, artifactsCount) ==
  IF k > Len(battlefield) THEN <<>>
  ELSE SourcesOf(battlefield[k], artifactsCount) \o SourcesFrom(battlefield, k + 1, artifactsCount)

untappedManaPermanents(state) ==
  SourcesFrom(state.battlefield, 1, getArtifactsCount(state.battlefield))

\* The affordability filter is dropped.
Castable_mut(state, name) == name \in IMPORTANT_CASTS

\* The whitelist filter is dropped.
Castable_anyName(state, name) ==
  \/ (parseCmc(manaCostOf(name)) = 0 /\ isArtifact(name))
  \/ name \in forcedFree
  \/ canPay(state.pool, manaCostOf(name))

\* The two filters of castableCards.
Castable(state, name) ==
  /\ name \in IMPORTANT_CASTS
  /\ \/ (parseCmc(manaCostOf(name)) = 0 /\ isArtifact(name))
     \/ name \in forcedFree
     \/ canPay(state.pool, manaCostOf(name))

RECURSIVE CastsFrom(_, _)
CastsFrom(state, k) ==
  IF k > Len(state.hand) THEN <<>>
  ELSE (IF Castable(state, state.hand[k]) THEN <<CastAction(state.hand[k], k)>> ELSE <<>>)
       \o CastsFrom(state, k + 1)

castableCards(state) == CastsFrom(state, 1)

\* const actions = [...castableCards(state), ...untappedManaPermanents(state)]
Actions(state) == castableCards(state) \o untappedManaPermanents(state)

(* ------------------------------ run closures -------------------------- *)

\* Every permanent with the name of the tapped one is marked tapped.
TapPerm_mut(battlefield, id) ==
  [k \in 1..Len(battlefield) |->
     IF \E j \in 1..Len(battlefield) : battlefield[j].id = id /\ battlefield[j].name = battlefield[k].name
       THEN [battlefield[k] EXCEPT !.tapped = TRUE] ELSE battlefield[k]]

\* battlefield.map((c) => (c._id === perm._id ? { ...c, tapped: true } : c))
TapPerm(battlefield, id) ==
  [k \in 1..Len(battlefield) |->
     IF battlefield[k].id = id THEN [battlefield[k] EXCEPT !.tapped = TRUE] ELSE battlefield[k]]

RemovePerm(battlefield, id) == SelectSeq(battlefield, LAMBDA c : c.id # id)

RunTap(a, s) ==
  IF a.mode = "academy" THEN
    LET n == getArtifactsCount(s.battlefield)
    IN [s EXCEPT !.pool = addPool(@, "U", n),
                 !.battlefield = TapPerm(@, a.id),
                 !.notes = Append(@, <<"Tap Academy for U", ToString(n)>>)]
  ELSE IF a.mode = "oneShot" THEN
    [s EXCEPT !.pool = addPool(@, "flex", a.n),
              !.battlefield = RemovePerm(@, a.id),
              !.notes = Append(@, <<"Sac", a.name, ToString(a.n)>>)]
  ELSE
    [s EXCEPT !.pool = addPool(@, a.field, a.n),
              !.battlefield = TapPerm(@, a.id),
              !.notes = Append(@, <<"Tap", a.name, a.field>>)]

\* The cast card stays in the hand.
RemoveAt_mut(seq, i) == seq

\* Every card with the name of the cast one leaves the hand.
RemoveAt_byName(seq, i) == SelectSeq(seq, LAMBDA x : x # seq[i])

\* next.hand.filter((x) => x !== c), c being the card at position i
RemoveAt(seq, i) == SubSeq(seq, 1, i - 1) \o SubSeq(seq, i + 1, Len(seq))

\* New untapped permanents for the names, with ids n0+1, n0+2, ... from uniqId.
NewPerms(names, n0) ==
  [k \in 1..Len(names) |-> [name |-> names[k], id |-> n0 + k, tapped |-> FALSE]]

IsZeroCoster(name) == isArtifact(name) /\ parseCmc(manaCostOf(name)) = 0

\* The bounced artifacts leave the battlefield without returning to the hand.
ResolvePO_mut(x) ==
  LET bounced == SelectSeq(x.s.battlefield, PermIsArtifact)
      bouncedCount == Len(bounced)
      bf1 == SelectSeq(x.s.battlefield, LAMBDA c : ~PermIsArtifact(c))
  IN IF bouncedCount > 0
       THEN [x EXCEPT !.s.battlefield = bf1,
                      !.s.notes = Append(x.s.notes, <<"PO bounce/replay", ToString(bouncedCount), "0">>)]
       ELSE x

\* Paradoxical Outcome: bounce all artifacts to hand, replay the 0-cost ones.
ResolvePO(x) ==
  LET bounced == SelectSeq(x.s.battlefield, PermIsArtifact)
      bouncedCount == Len(bounced)
      hand1 == x.s.hand \o [k \in 1..bouncedCount |-> bounced[k].name]
      zeroCosters == SelectSeq(hand1, IsZeroCoster)
      hand2 == SelectSeq(hand1, LAMBDA h : ~IsZeroCoster(h))
      bf1 == SelectSeq(x.s.battlefield, LAMBDA c : ~PermIsArtifact(c))
  IN IF bouncedCount > 0
       THEN [x EXCEPT !.s.battlefield = bf1 \o NewPerms(zeroCosters, x.nid),
                      !.s.hand = hand2,
                      !.nid = @ + Len(zeroCosters),
                      !.s.notes = Append(x.s.notes,
                          <<"PO bounce/replay", ToString(bouncedCount), ToString(Len(zeroCosters))>>)]
       ELSE x

FirstLand(battlefield) ==
  battlefield[CHOOSE k \in 1..Len(battlefield) :
                /\ isLand(battlefield[k].name)
                /\ \A j \in 1..(k - 1) : ~isLand(battlefield[j].name)]

\* Tolarian Academy is fetched without a land being sacrificed.
ResolveCropRotation_mut(x, dk) ==
  LET hasLandToSac == \E k \in 1..Len(x.s.battlefield) : isLand(x.s.battlefield[k].name)
      artifactsCount == getArtifactsCount(x.s.battlefield)
  IN IF hasLandToSac /\ artifactsCount >= 2 /\ "Tolarian Academy" \in dk
       THEN LET landToSac == FirstLand(x.s.battlefield)
            IN [x EXCEPT !.s.battlefield = x.s.battlefield \o NewPerms(<<"Tolarian Academy">>, x.nid),
                         !.nid = @ + 1,
                         !.s.notes = Append(x.s.notes,
                             <<"Crop Rotation", landToSac.name, ToString(artifactsCount)>>)]
       ELSE x

\* Crop Rotation: sacrifice the first land, fetch Tolarian Academy untapped.
ResolveCropRotation(x, dk) ==
  LET hasLandToSac == \E k \in 1..Len(x.s.battlefield) : isLand(x.s.battlefield[k].name)
      artifactsCount == getArtifactsCount(x.s.battlefield)
  IN IF hasLandToSac /\ artifactsCount >= 2 /\ "Tolarian Academy" \in dk
       THEN LET landToSac == FirstLand(x.s.battlefield)
            IN [x EXCEPT !.s.battlefield =
                             RemovePerm(x.s.battlefield, landToSac.id) \o NewPerms(<<"Tolarian Academy">>, x.nid),
                         !.nid = @ + 1,
                         !.s.notes = Append(x.s.notes,
                             <<"Crop Rotation", landToSac.name, ToString(artifactsCount)>>)]
       ELSE x

\* Tinker: the Blightsteel annotation, then the two Vault/Key checks, which call
\* canPay with an object ({ C: 2 } / { C: 3 }) as the cost.
ResolveTinker(x, dk) ==
  LET hasSacArtifact == \E k \in 1..Len(x.s.battlefield) :
                           isArtifact(x.s.battlefield[k].name)
                           /\ x.s.battlefield[k].name # "Blightsteel Colossus"
      blightsteelInHand == "Blightsteel Colossus" \in Range(x.s.hand)
      hasVaultInHand == "Time Vault" \in Range(x.s.hand)
      hasKeyInHand == "Voltaic Key" \in Range(x.s.hand) \/ "Manifold Key" \in Range(x.s.hand)
      x1 == IF hasSacArtifact /\ "Blightsteel Colossus" \in dk /\ ~blightsteelInHand
              THEN [x EXCEPT !.s.notes = Append(@, NoteTinkerBlightsteel)]
              ELSE x
      vaultCheck == hasSacArtifact /\ hasKeyInHand /\ ~hasVaultInHand /\ "Time Vault" \in dk
      keyCheck == hasSacArtifact /\ hasVaultInHand /\ ~hasKeyInHand
                  /\ ("Voltaic Key" \in dk \/ "Manifold Key" \in dk)
  IN IF (vaultCheck \/ keyCheck) /\ ParseThrows(ObjCost)
       THEN [x1 EXCEPT !.err = TRUE]
       ELSE x1

\* run of a cast action, applied to state s with the id counter at n0 and deck index dk.
RunCast(a, s, n0, dk) ==
  LET c == a.name
      spendMana == c \notin forcedFree
      pool1 == IF spendMana /\ parseCmc(manaCostOf(c)) > 0 THEN pay(s.pool, manaCostOf(c)) ELSE s.pool
      s1 == [s EXCEPT !.pool = pool1, !.hand = RemoveAt(@, a.i), !.cast = Append(@, c)]
      permanent == isArtifact(c) \/ isPlaneswalker(c)
      s2 == IF permanent THEN [s1 EXCEPT !.battlefield = @ \o NewPerms(<<c>>, n0)] ELSE s1
      s3 == [s2 EXCEPT !.notes = Append(@, <<"Cast", c>>)]
      x3 == [s |-> s3, nid |-> IF permanent THEN n0 + 1 ELSE n0, err |-> FALSE]
  IN IF isLand(c) THEN [s |-> s1, nid |-> n0, err |-> FALSE]
     ELSE IF c = "Paradoxical Outcome" THEN ResolvePO(x3)
     ELSE IF c = "Crop Rotation" THEN ResolveCropRotation(x3, dk)
     ELSE IF c = "Tinker" THEN ResolveTinker(x3, dk)
     ELSE x3

Run(a, s, n0, dk) ==
  IF a.kind = "cast" THEN RunCast(a, s, n0, dk)
  ELSE [s |-> RunTap(a, s), nid |-> n0, err |-> FALSE]

(* ------------------------------ Search engine ------------------------- *)

\* best.score starts at -Infinity; every score is >= 0, so -1 is below all of them.
NegInfinity == -1

NoState == [hand |-> <<>>, battlefield |-> <<>>, pool |-> emptyPool, landName |-> "null",
            cast |-> <<>>, notes |-> <<>>]

best0 == [score |-> NegInfinity, tier |-> 0, notes |-> <<>>, final |-> NoState]

NoSim == [battlefieldBase |-> <<>>, nonLandsBase |-> <<>>, landChoices |-> <<>>]

NoResult == [decision |-> "none", reasons |-> <<>>, line |-> <<>>,
             stats |-> [lands |-> 0, interaction |-> 0, selection |-> 0, payoff |-> 0, tier |-> 0]]

\* The lands that are not chosen stay in the hand of the start state.
PrePlay_keepLands(h, n0) ==
  LET isBase(c) == isArtifact(c) /\ ~isLand(c) /\ parseCmc(manaCostOf(c)) = 0
      remainingHandBase == SelectSeq(h, LAMBDA c : ~isBase(c))
      landsInHand == SelectSeq(remainingHandBase, isLand)
  IN [battlefieldBase |-> NewPerms(SelectSeq(h, isBase), n0),
      nonLandsBase |-> remainingHandBase,
      landChoices |-> IF Len(landsInHand) > 0 THEN landsInHand ELSE <<"null">>]

\* A land that is an artifact is pre-played with the 0-cost artifacts.
PrePlay_mut(h, n0) ==
  LET isBase(c) == isArtifact(c) /\ parseCmc(manaCostOf(c)) = 0
      remainingHandBase == SelectSeq(h, LAMBDA c : ~isBase(c))
      landsInHand == SelectSeq(remainingHandBase, isLand)
  IN [battlefieldBase |-> NewPerms(SelectSeq(h, isBase), n0),
      nonLandsBase |-> SelectSeq(remainingHandBase, LAMBDA c : ~isLand(c)),
      landChoices |-> IF Len(landsInHand) > 0 THEN landsInHand ELSE <<"null">>]

\* Pre-play of the 0-mana artifacts and the land choices (null when the hand has no land).
PrePlay(h, n0) ==
  LET isBase(c) == isArtifact(c) /\ ~isLand(c) /\ parseCmc(manaCostOf(c)) = 0
      remainingHandBase == SelectSeq(h, LAMBDA c : ~isBase(c))
      landsInHand == SelectSeq(remainingHandBase, isLand)
  IN [battlefieldBase |-> NewPerms(SelectSeq(h, isBase), n0),
      nonLandsBase |-> SelectSeq(remainingHandBase, LAMBDA c : ~isLand(c)),
      landChoices |-> IF Len(landsInHand) > 0 THEN landsInHand ELSE <<"null">>]

\* The trace names the land with the id it is given.
StartState_mut(sm, land, n0) ==
  [hand |-> sm.nonLandsBase,
   battlefield |-> IF land # "null" THEN sm.battlefieldBase \o NewPerms(<<land>>, n0)
                   ELSE sm.battlefieldBase,
   pool |-> emptyPool,
   landName |-> land,
   cast |-> <<>>,
   notes |-> << <<"Start, 0-cost artifacts played", ToString(Len(sm.battlefieldBase))>>,
                IF land # "null" THEN <<"Play land", land, ToString(n0 + 1)>> ELSE <<"No land in hand">> >>]

\* The start state of one land choice.
StartState(sm, land, n0) ==
  [hand |-> sm.nonLandsBase,
   battlefield |-> IF land # "null" THEN sm.battlefieldBase \o NewPerms(<<land>>, n0)
                   ELSE sm.battlefieldBase,
   pool |-> emptyPool,
   landName |-> land,
   cast |-> <<>>,
   notes |-> << <<"Start, 0-cost artifacts played", ToString(Len(sm.battlefieldBase))>>,
                IF land # "null" THEN <<"Play land", land>> ELSE <<"No land in hand">> >>]

\* JSON.stringify of land, sorted hand names, sorted name:tapped pairs and pool:
\* a sorted list is determined by, and determines, the multiset of its entries.
Key(state) ==
  [land |-> state.landName,
   hand |-> SeqToBag(state.hand),
   bf |-> SeqToBag([k \in 1..Len(state.battlefield) |->
                      <<state.battlefield[k].name, state.battlefield[k].tapped>>]),
   pool |-> state.pool]

Frame(state, depth) == [state |-> state, depth |-> depth, phase |-> "enter", actions |-> <<>>, next |-> 1]

Top == stack[Len(stack)]

Pop == SubSeq(stack, 1, Len(stack) - 1)

\* The tie-break on the tier is missing.
Better_scoreOnly(sc, b) == sc.score > b.score

Better(sc, b) == sc.score > b.score \/ (sc.score = b.score /\ sc.tier > b.tier)

UpdateBest(b, state) ==
  LET sc == scoreState(state)
  IN IF Better(sc, b)
       THEN [score |-> sc.score, tier |-> sc.tier, notes |-> state.notes, final |-> state]
       ELSE b

\* The action list of a node in the given order: the code's is
\* [...castableCards(state), ...untappedManaPermanents(state)].
ActionsIn(ord, state) ==
  IF ord = "castsFirst" THEN Actions(state)
  ELSE IF ord = "tapsFirst" THEN untappedManaPermanents(state) \o castableCards(state)
  ELSE [k \in 1..Len(Actions(state)) |-> Actions(state)[Len(Actions(state)) + 1 - k]]

\* The visited set is never consulted.
Visited_mut(key, keys) == FALSE

\* seen.has(key)
Visited(key, keys) == key \in keys

\* simulateTurn1 up to the loop over landChoices.
SimStart ==
  /\ pc = "start"
  /\ sim' = PrePlay(hand, nid)
  /\ nid' = nid + Len(PrePlay(hand, nid).battlefieldBase)
  /\ best' = best0
  /\ branch' = 1
  /\ pc' = "run"
  /\ scores' = {}
  /\ keyScores' = {}
  /\ UNCHANGED <<hand, deck, stack, seen, scored, result, fin, fout, previous, variantVars, editorVars>>

\* One iteration of the loop over landChoices, up to the call dfs(start, 0, new Set()).
BeginBranch ==
  /\ pc = "run"
  /\ stack = <<>>
  /\ branch <= Len(sim.landChoices)
  /\ LET land == sim.landChoices[branch]
     IN /\ stack' = <<Frame(StartState(sim, land, nid), 0)>>
        /\ nid' = IF land # "null" THEN nid + 1 ELSE nid
  /\ seen' = {}
  /\ scored' = 0
  /\ branch' = branch + 1
  /\ keyScores' = {}
  /\ UNCHANGED <<hand, deck, pc, sim, best, result, fin, fout, scores, previous, variantVars, editorVars>>

\* dfs entered with a key already in seen: return at once.
DfsSkip ==
  /\ pc = "run"
  /\ stack # <<>>
  /\ Top.phase = "enter"
  /\ Visited(Key(Top.state), seen)
  /\ stack' = Pop
  /\ UNCHANGED <<hand, deck, pc, sim, branch, seen, best, nid, scored, result, fin, fout, scores, previous, keyScores, variantVars, editorVars>>

\* The return at the depth bound comes one level late.
DfsVisit_mut ==
  /\ pc = "run"
  /\ stack # <<>>
  /\ Top.phase = "enter"
  /\ ~Visited(Key(Top.state), seen)
  /\ seen' = seen \cup {Key(Top.state)}
  /\ scored' = scored + 1
  /\ best' = UpdateBest(best, Top.state)
  /\ scores' = scores \cup {[score |-> scoreState(Top.state).score, tier |-> scoreState(Top.state).tier]}
  /\ keyScores' = keyScores \cup {[key |-> Key(Top.state), score |-> scoreState(Top.state).score,
                                    tier |-> scoreState(Top.state).tier]}
  /\ stack' = IF (cutoff /\ Top.depth > DepthLimit) \/ Actions(Top.state) = <<>>
                THEN Pop
                ELSE [stack EXCEPT ![Len(stack)] =
                        [@ EXCEPT !.phase = "loop", !.actions = ActionsIn(order, Top.state), !.next = 1]]
  /\ UNCHANGED <<hand, deck, pc, sim, branch, nid, result, fin, fout, previous, variantVars, editorVars>>

\* dfs entered with a new key: record it, score, update best, then either return
\* (depth bound or no action) or start the loop over the actions.
DfsVisit ==
  /\ pc = "run"
  /\ stack # <<>>
  /\ Top.phase = "enter"
  /\ ~Visited(Key(Top.state), seen)
  /\ seen' = seen \cup {Key(Top.state)}
  /\ scored' = scored + 1
  /\ best' = UpdateBest(best, Top.state)
  /\ scores' = scores \cup {[score |-> scoreState(Top.state).score, tier |-> scoreState(Top.state).tier]}
  /\ keyScores' = keyScores \cup {[key |-> Key(Top.state), score |-> scoreState(Top.state).score,
                                    tier |-> scoreState(Top.state).tier]}
  /\ stack' = IF (cutoff /\ Top.depth >= DepthLimit) \/ Actions(Top.state) = <<>>
                THEN Pop
                ELSE [stack EXCEPT ![Len(stack)] =
                        [@ EXCEPT !.phase = "loop", !.actions = ActionsIn(order, Top.state), !.next = 1]]
  /\ UNCHANGED <<hand, deck, pc, sim, branch, nid, result, fin, fout, previous, variantVars, editorVars>>

\* run works on the state it is given instead of a copy: the caller's state is
\* the returned one.
DfsCall_mut ==
  /\ pc = "run"
  /\ stack # <<>>
  /\ Top.phase = "loop"
  /\ Top.next <= Len(Top.actions)
  /\ LET r == Run(Top.actions[Top.next], Top.state, nid, deck)
     IN /\ ~r.err
        /\ stack' = Append([stack EXCEPT ![Len(stack)] = [@ EXCEPT !.next = @ + 1, !.state = r.s]],
                           Frame(r.s, Top.depth + 1))
        /\ nid' = r.nid
  /\ UNCHANGED <<hand, deck, pc, sim, branch, seen, best, scored, result, fin, fout, scores, previous, keyScores, variantVars, editorVars>>

\* One iteration of the action loop: dfs(a.run(state), depth + 1, seen).
DfsCall ==
  /\ pc = "run"
  /\ stack # <<>>
  /\ Top.phase = "loop"
  /\ Top.next <= Len(Top.actions)
  /\ LET r == Run(Top.actions[Top.next], Top.state, nid, deck)
     IN /\ ~r.err
        /\ stack' = Append([stack EXCEPT ![Len(stack)] = [@ EXCEPT !.next = @ + 1]],
                           Frame(r.s, Top.depth + 1))
        /\ nid' = r.nid
  /\ UNCHANGED <<hand, deck, pc, sim, branch, seen, best, scored, result, fin, fout, scores, previous, keyScores, variantVars, editorVars>>

\* a.run(state) throws: nothing catches it, the evaluation ends without a result.
DfsThrow ==
  /\ pc = "run"
  /\ stack # <<>>
  /\ Top.phase = "loop"
  /\ Top.next <= Len(Top.actions)
  /\ Run(Top.actions[Top.next], Top.state, nid, deck).err
  /\ pc' = "error"
  /\ stack' = <<>>
  /\ UNCHANGED <<hand, deck, sim, branch, seen, best, nid, scored, result, fin, fout, scores, previous, keyScores, variantVars, editorVars>>

\* The action loop is exhausted: dfs returns.
DfsReturn ==
  /\ pc = "run"
  /\ stack # <<>>
  /\ Top.phase = "loop"
  /\ Top.next > Len(Top.actions)
  /\ stack' = Pop
  /\ UNCHANGED <<hand, deck, pc, sim, branch, seen, best, nid, scored, result, fin, fout, scores, previous, keyScores, variantVars, editorVars>>

(* ------------------------------ Mulligan advisor ---------------------- *)

IsFastMana(c) ==
  isArtifact(c) /\ parseCmc(manaCostOf(c)) \in {0, 1} /\ manaPermanentKind(c) # "null"

Stats(h) ==
  [lands |-> CountIf(h, isLand),
   interaction |-> CountIf(h, LAMBDA c : c \in INTERACTION),
   selection |-> CountIf(h, isSelectionSpell),
   payoff |-> CountIf(h, isPayoff),
   fastMana |-> CountIf(h, IsFastMana)]

\* Tier 0 kept with a single land.
Decide_mut(tier, st) ==
  IF tier >= 2 THEN "KEEP"
  ELSE IF tier = 1 THEN (IF st.lands >= 1 \/ st.selection >= 2 THEN "KEEP" ELSE "MULLIGAN")
  ELSE IF st.lands >= 1 /\ st.interaction >= 1 /\ st.selection >= 1 THEN "KEEP"
  ELSE IF st.fastMana >= 3 /\ st.payoff >= 1 /\ st.selection >= 1 THEN "KEEP"
  ELSE "MULLIGAN"

Decide(tier, st) ==
  IF tier >= 2 THEN "KEEP"
  ELSE IF tier = 1 THEN (IF st.lands >= 1 \/ st.selection >= 2 THEN "KEEP" ELSE "MULLIGAN")
  ELSE IF st.lands >= 2 /\ st.interaction >= 1 /\ st.selection >= 1 THEN "KEEP"
  ELSE IF st.fastMana >= 3 /\ st.payoff >= 1 /\ st.selection >= 1 THEN "KEEP"
  ELSE "MULLIGAN"

\* The "0 lands" flag is raised for one land instead of none.
Reasons_mut(tier, st) ==
     <<IF tier = 3 THEN "Virtual win / hard lock line found"
       ELSE IF tier = 2 THEN "Strong T1 line found"
       ELSE IF tier = 1 THEN "Functional T1 line found"
       ELSE "No coherent T1 line found">>
  \o (IF st.lands = 1 THEN <<"0 lands">> ELSE <<>>)
  \o (IF st.lands >= 5 THEN <<"lands (flood risk)">> ELSE <<>>)
  \o (IF st.selection = 0 THEN <<"No card selection/tutors">> ELSE <<>>)
  \o (IF st.payoff = 0 THEN <<"No payoff/pressure piece">> ELSE <<>>)
  \o (IF st.interaction >= 1 THEN <<"Interaction present">> ELSE <<>>)

Reasons(tier, st) ==
     <<IF tier = 3 THEN "Virtual win / hard lock line found"
       ELSE IF tier = 2 THEN "Strong T1 line found"
       ELSE IF tier = 1 THEN "Functional T1 line found"
       ELSE "No coherent T1 line found">>
  \o (IF st.lands = 0 THEN <<"0 lands">> ELSE <<>>)
  \o (IF st.lands >= 5 THEN <<"lands (flood risk)">> ELSE <<>>)
  \o (IF st.selection = 0 THEN <<"No card selection/tutors">> ELSE <<>>)
  \o (IF st.payoff = 0 THEN <<"No payoff/pressure piece">> ELSE <<>>)
  \o (IF st.interaction >= 1 THEN <<"Interaction present">> ELSE <<>>)

\* The whole trace is returned instead of its first entries.
analyzeMulligan_mut(h, b) ==
  LET st == Stats(h)
  IN [decision |-> Decide(b.tier, st),
      reasons |-> Reasons(b.tier, st),
      line |-> b.notes,
      stats |-> [lands |-> st.lands, interaction |-> st.interaction, selection |-> st.selection,
                 payoff |-> st.payoff, tier |-> b.tier]]

analyzeMulligan(h, b) ==
  LET st == Stats(h)
  IN [decision |-> Decide(b.tier, st),
      reasons |-> Reasons(b.tier, st),
      line |-> SubSeq(b.notes, 1, Min(LineLimit, Len(b.notes))),
      stats |-> [lands |-> st.lands, interaction |-> st.interaction, selection |-> st.selection,
                 payoff |-> st.payoff, tier |-> b.tier]]

\* The loop over landChoices is over: simulateTurn1 returns and analyzeMulligan
\* builds its result from best.
Finish ==
  /\ pc = "run"
  /\ stack = <<>>
  /\ branch > Len(sim.landChoices)
  /\ result' = analyzeMulligan(hand, best)
  /\ pc' = "done"
  /\ UNCHANGED <<hand, deck, sim, branch, stack, seen, best, nid, scored, fin, fout, scores, previous, keyScores, variantVars, editorVars>>

(* ------------------------------- input hands -------------------------- *)

CorePool ==
  <<"City of Brass", "Tolarian Academy", "Starting Town",
    "Mox Sapphire", "Mox Jet", "Black Lotus", "Mana Crypt", "Sol Ring",
    "Voltaic Key", "Time Vault", "Tinker", "Ancestral Recall", "Demonic Tutor",
    "Crop Rotation", "Paradoxical Outcome">>

Padding == <<"Sundering Titan", "Hurkyl's Recall", "Sundering Titan", "Hurkyl's Recall",
             "Sundering Titan", "Hurkyl's Recall", "Sundering Titan">>

\* The cards of CorePool at the positions in idx, padded to HandSize cards.
CoreHand(idx) ==
  LET core == SelectSeq([k \in 1..Len(CorePool) |-> k], LAMBDA k : k \in idx)
  IN [k \in 1..Len(core) |-> CorePool[core[k]]] \o SubSeq(Padding, 1, HandSize - Len(core))

CoreHands == {CoreHand(idx) : idx \in {x \in SUBSET (1..Len(CorePool)) : Cardinality(x) <= MaxCore}}

HighCost == <<"Force of Will", "Tinker", "Karn, the Great Creator", "Trinisphere", "Blightsteel Colossus">>

\* Every hand of 7 spells of HighCost (no land, no fast-mana artifact).
HighCostHands ==
  {[k \in 1..HandSize |-> HighCost[f[k]]] :
     f \in {g \in [1..HandSize -> 1..Len(HighCost)] : \A k \in 1..(HandSize - 1) : g[k] <= g[k + 1]}}

Unrelated == <<"Blightsteel Colossus", "Sundering Titan">>

\* Four lands of one type, a one-mana selection spell, two unrelated high-cost cards.
FourLandHands ==
  {Repeat(land, 4) \o <<spell>> \o Unrelated :
     land \in {"Island", "Swamp", "Strip Mine", "City of Brass", "Mana Confluence"},
     spell \in {"Ancestral Recall", "Brainstorm", "Mystical Tutor", "Vampiric Tutor"}}

\* Demonic Tutor and Time Vault with two lands, and with fast mana instead.
DemonicVaultLandHand == <<"Demonic Tutor", "Time Vault", "Swamp", "Swamp">> \o Unrelated \o <<"Sundering Titan">>

DemonicVaultFastHand == <<"Demonic Tutor", "Time Vault", "Mox Jet", "Black Lotus", "Mana Crypt">> \o Unrelated

\* Tinker castable with an artifact in play and a Key in hand.
TinkerKeyHand == <<"Mana Crypt", "Mox Sapphire", "Tinker", "Voltaic Key">> \o Unrelated \o <<"Sundering Titan">>

\* Three lands, one interaction spell, one selection spell, two unrelated cards.
ThreeLandHand == <<"Strip Mine", "Strip Mine", "Strip Mine", "Force of Will", "Ancestral Recall">> \o Unrelated

\* Mox Opal with two other 0-mana artifacts (three artifacts pre-played), and two
\* copies of a castable card.
OpalHand == <<"Mox Opal", "Mox Sapphire", "Mox Jet", "Voltaic Key", "Voltaic Key", "City of Brass", "Sundering Titan">>

\* A hand whose best line is longer than the line summary: Paradoxical Outcome
\* returns the mana artifacts, which are played and tapped a second time.
LongLineHand == <<"Mana Crypt", "Sol Ring", "Mana Vault", "Mox Sapphire", "Paradoxical Outcome",
                  "Sundering Titan", "Sundering Titan">>

\* Ancestral Recall and Force of Will with a single blue source.
AncestralForceHand == <<"Mox Sapphire", "Ancestral Recall", "Force of Will", "Sundering Titan",
                        "Sundering Titan", "Sundering Titan", "Sundering Titan">>

\* Tinker and a one-mana artifact with exactly four mana available.
TinkerBaubleHand == <<"Black Lotus", "Tinker", "Vexing Bauble", "City of Brass", "Sundering Titan",
                      "Sundering Titan", "Sundering Titan">>

\* Three Paradoxical Outcomes over mana artifacts that pay for each of them
\* with one mana to spare, and Tinker: the third replay is more than 18 actions deep.
OutcomeTinkerHand == <<"Mox Sapphire", "Mana Crypt", "Mana Vault", "Paradoxical Outcome",
                       "Paradoxical Outcome", "Paradoxical Outcome", "Tinker">>

\* Crop Rotation with a land, two artifacts and two ways to pay for it.
CropRotationHand == <<"City of Brass", "Crop Rotation", "Black Lotus", "Mox Sapphire", "Mox Jet",
                      "Sundering Titan", "Sundering Titan">>

\* A land that is an artifact, with another land.
ArtifactLandHand == <<"Seat of the Synod", "City of Brass", "Mox Sapphire", "Black Lotus",
                      "Paradoxical Outcome", "Sundering Titan", "Sundering Titan">>

\* Two copies of a Mox and of Lotus Petal, and Starting Town with its two ways to tap.
TwinMoxHand == <<"Mox Sapphire", "Mox Sapphire", "Lotus Petal", "Lotus Petal", "Starting Town",
                 "Sundering Titan", "Sundering Titan">>

\* The two cards of the forced-free list, with mana sources.
ProbeHand == <<"Gitaxian Probe", "Mental Misstep", "Mox Sapphire", "City of Brass",
               "Sundering Titan", "Sundering Titan", "Sundering Titan">>

ComboHands == {TwinMoxHand, ProbeHand, DemonicVaultLandHand, DemonicVaultFastHand, TinkerKeyHand, ThreeLandHand, OpalHand,
               LongLineHand, AncestralForceHand, TinkerBaubleHand, OutcomeTinkerHand, CropRotationHand,
               ArtifactLandHand}

\* Three Paradoxical Outcomes over mana artifacts: the first descent of the search
\* reaches depth 18 on a state that is the best so far and has actions left.
DeepOutcomeHand == <<"Mox Sapphire", "Paradoxical Outcome", "Paradoxical Outcome", "Mana Crypt",
                     "Sol Ring", "Mana Vault", "Paradoxical Outcome">>

Hands == CoreHands \cup HighCostHands \cup FourLandHands \cup ComboHands \cup {DeepOutcomeHand}

ComboTargets == {"Tolarian Academy", "Blightsteel Colossus", "Time Vault", "Voltaic Key", "Manifold Key"}

Decks == {ComboTargets, {"Tolarian Academy", "Blightsteel Colossus"}, {}}

(* ------------------------------ specification ------------------------- *)

NoCall == [op |-> "none"]

NoBest == [score |-> NegInfinity, tier |-> NegInfinity, returned |-> FALSE]

\* dfs as written: casts listed before taps, return at depth 18.
CodeVariant == order = "castsFirst" /\ cutoff = TRUE /\ previousBest = NoBest

\* selectedFlex is null: no flex modal is open.
NoSelection == [zone |-> "null", entryIndex |-> 0]

\* The deck editor is not in use.
NoEditor == mainConfig = <<>> /\ sideConfig = <<>> /\ selectedFlex = NoSelection

Init ==
  /\ hand \in Hands
  /\ deck \in Decks
  /\ pc = "start"
  /\ sim = NoSim
  /\ branch = 1
  /\ stack = <<>>
  /\ seen = {}
  /\ best = best0
  /\ nid = 0
  /\ scored = 0
  /\ result = NoResult
  /\ scores = {}
  /\ previous = NoResult
  /\ keyScores = {}
  /\ CodeVariant
  /\ NoEditor
  /\ fin = NoCall
  /\ fout = NoCall

Next ==
  \/ SimStart
  \/ BeginBranch
  \/ DfsSkip
  \/ DfsVisit
  \/ DfsCall
  \/ DfsThrow
  \/ DfsReturn
  \/ Finish

Spec == Init /\ [][Next]_vars

(* ------------- the best record over given scored states --------------- *)

NoFlags ==
  [infiniteTurns |-> FALSE, tinkerWin |-> FALSE, trinketVaultWin |-> FALSE,
   demonicVaultWin |-> FALSE, vaultKeyForceBackup |-> FALSE, tezzTimeWalkWin |-> FALSE,
   big |-> FALSE, castSelection |-> FALSE, ancestralWithForce |-> FALSE, tutorForTinker |-> FALSE]

\* What the detectors of scoreState found in a state.
FlagChoices ==
  {NoFlags, [NoFlags EXCEPT !.castSelection = TRUE], [NoFlags EXCEPT !.big = TRUE],
   [NoFlags EXCEPT !.big = TRUE, !.castSelection = TRUE], [NoFlags EXCEPT !.demonicVaultWin = TRUE]}

\* A state as scoreState sees it: detector results, total pool mana and the
\* number of permanent mana sources on the battlefield.
ScoredInputs ==
  [f : FlagChoices, poolTotal : 0..MaxPoolTotal, permanentMana : 0..HandSize]

\* score and tier as scoreState computes them.
Scored(x) ==
  [score |-> ScoreOf(x.f, x.poolTotal, x.permanentMana), tier |-> TierOf(x.f, x.poolTotal)]

\* The best update of dfs over the states xs in the order they are scored.
RECURSIVE FoldBest(_, _)
FoldBest(b, xs) ==
  IF xs = <<>> THEN b
  ELSE FoldBest(IF Better(Scored(Head(xs)), b)
                  THEN [b EXCEPT !.score = Scored(Head(xs)).score, !.tier = Scored(Head(xs)).tier]
                  ELSE b,
                Tail(xs))

BestInit ==
  /\ fin \in {[op |-> "best", visited |-> <<a, b>>] : a \in ScoredInputs, b \in ScoredInputs}
  /\ fout = NoCall
  /\ pc = "call"
  /\ hand = <<>>
  /\ deck = {}
  /\ sim = NoSim
  /\ branch = 1
  /\ stack = <<>>
  /\ seen = {}
  /\ best = best0
  /\ nid = 0
  /\ scored = 0
  /\ result = NoResult
  /\ scores = {}
  /\ previous = NoResult
  /\ keyScores = {}
  /\ CodeVariant
  /\ NoEditor

\* The states of fin.visited are scored in turn, each followed by the best update.
BestCall ==
  /\ pc = "call"
  /\ fin.op = "best"
  /\ best' = FoldBest(best, fin.visited)
  /\ scores' = {Scored(fin.visited[k]) : k \in 1..Len(fin.visited)}
  /\ scored' = Len(fin.visited)
  /\ fout' = [op |-> "best"]
  /\ pc' = "returned"
  /\ UNCHANGED <<hand, deck, sim, branch, stack, seen, nid, result, fin, previous, keyScores, variantVars, editorVars>>

\* The best record in the search itself and over given scored states.
BestSpec == (Init \/ BestInit) /\ [][Next \/ BestCall]_vars

(* --------------- tier-3 states against all other states --------------- *)

Tier3Detectors ==
  {"infiniteTurns", "tinkerWin", "trinketVaultWin", "demonicVaultWin", "vaultKeyForceBackup",
   "tezzTimeWalkWin"}

SecondaryDetectors == {"big", "castSelection", "ancestralWithForce", "tutorForTinker"}

\* The detector results with exactly the detectors of on raised.
FlagsWith(on) == [d \in DOMAIN NoFlags |-> d \in on]

\* Tier-3 states with nothing in the pool and no mana source: one tier-3 detector,
\* and none or all of the detectors below it.
LeastTier3Inputs ==
  {[f |-> FlagsWith({d} \cup sec), poolTotal |-> 0, permanentMana |-> 0] :
     d \in Tier3Detectors, sec \in {{}, SecondaryDetectors}}

\* Every state without a tier-3 detector: any of the other detectors, pool totals
\* and permanent-mana counts up to and past the caps of their score terms.
BelowTier3Inputs ==
  [f : {FlagsWith(on) : on \in SUBSET SecondaryDetectors},
   poolTotal : 0..(2 * MaxPoolTotal + 1),
   permanentMana : 0..(HandSize + 1)]

TierInit ==
  /\ fin \in {[op |-> "best", visited |-> v] :
               v \in UNION {{<<a, b>>, <<b, a>>} : a \in LeastTier3Inputs, b \in BelowTier3Inputs}}
  /\ fout = NoCall
  /\ pc = "call"
  /\ hand = <<>>
  /\ deck = {}
  /\ sim = NoSim
  /\ branch = 1
  /\ stack = <<>>
  /\ seen = {}
  /\ best = best0
  /\ nid = 0
  /\ scored = 0
  /\ result = NoResult
  /\ scores = {}
  /\ previous = NoResult
  /\ keyScores = {}
  /\ CodeVariant
  /\ NoEditor

\* The search itself, and the best update over a tier-3 state and another state.
TierSpec == (Init \/ TierInit) /\ [][Next \/ BestCall]_vars

(* ------------------- two evaluations of one hand ---------------------- *)

\* The hand is evaluated again (shuffleAndDraw calls analyzeMulligan afresh): the
\* counter of uniqId is module state and keeps its value, everything else is
\* local to the call.
EvaluateAgain ==
  /\ pc = "done"
  /\ previous = NoResult
  /\ previous' = result
  /\ result' = NoResult
  /\ pc' = "start"
  /\ sim' = NoSim
  /\ branch' = 1
  /\ seen' = {}
  /\ best' = best0
  /\ scored' = 0
  /\ scores' = {}
  /\ UNCHANGED <<hand, deck, stack, nid, fin, fout, keyScores, variantVars, editorVars>>

SessionNext == Next \/ EvaluateAgain

SessionSpec == Init /\ [][SessionNext]_vars

(* ------------------ direct calls of canPay and pay --------------------- *)

RECURSIVE DigitsOf(_)
DigitsOf(n) == IF n < 10 THEN <<DigitChars[n + 1]>> ELSE Append(DigitsOf(n \div 10), DigitChars[(n % 10) + 1])

\* The cost string with the given requirement: "{generic}{W}..{U}..{B}..{R}..{G}..{C}..".
CostString(r) ==
  Str((IF r.generic > 0 THEN <<DigitsOf(r.generic)>> ELSE <<>>)
      \o Repeat(<<"W">>, r.W) \o Repeat(<<"U">>, r.U) \o Repeat(<<"B">>, r.B)
      \o Repeat(<<"R">>, r.R) \o Repeat(<<"G">>, r.G) \o Repeat(<<"C">>, r.C))

ReqTotal(r) == r.generic + r.W + r.U + r.B + r.R + r.G + r.C

Pools == {p \in [PoolFields -> 0..MaxPoolTotal] : sumMana(p) <= MaxPoolTotal}

Reqs == {r \in [{"generic", "W", "U", "B", "R", "G", "C"} -> 0..MaxReqTotal] : ReqTotal(r) <= MaxReqTotal}

PayInit ==
  /\ fin \in {[op |-> "pay", pool |-> p, manaCost |-> CostString(r)] : p \in Pools, r \in Reqs}
  /\ fout = NoCall
  /\ pc = "call"
  /\ hand = <<>>
  /\ deck = {}
  /\ sim = NoSim
  /\ branch = 1
  /\ stack = <<>>
  /\ seen = {}
  /\ best = best0
  /\ nid = 0
  /\ scored = 0
  /\ result = NoResult
  /\ scores = {}
  /\ previous = NoResult
  /\ keyScores = {}
  /\ CodeVariant
  /\ NoEditor

\* canPay(pool, manaCost) and pay(pool, manaCost) on the same arguments.
PayCall ==
  /\ pc = "call"
  /\ fin.op = "pay"
  /\ fout' = [op |-> "pay", can |-> canPay(fin.pool, fin.manaCost), paid |-> pay(fin.pool, fin.manaCost)]
  /\ pc' = "returned"
  /\ UNCHANGED <<hand, deck, sim, branch, stack, seen, best, nid, scored, result, fin, scores, previous, keyScores, variantVars, editorVars>>

PayNext == PayCall

PaySpec == PayInit /\ [][PayNext]_vars

(* -------------------- direct calls of the decision rule ---------------- *)

StatRecords ==
  [lands : 0..MaxStat, interaction : 0..MaxStat, selection : 0..MaxStat,
   payoff : 0..MaxStat, fastMana : 0..MaxStat]

DecideInit ==
  /\ fin \in {[op |-> "decide", tier |-> t, st |-> st] : t \in 0..3, st \in StatRecords}
  /\ fout = NoCall
  /\ pc = "call"
  /\ hand = <<>>
  /\ deck = {}
  /\ sim = NoSim
  /\ branch = 1
  /\ stack = <<>>
  /\ seen = {}
  /\ best = best0
  /\ nid = 0
  /\ scored = 0
  /\ result = NoResult
  /\ scores = {}
  /\ previous = NoResult
  /\ keyScores = {}
  /\ CodeVariant
  /\ NoEditor

\* The decision part of analyzeMulligan for a reported tier and hand statistics.
DecideCall ==
  /\ pc = "call"
  /\ fin.op = "decide"
  /\ fout' = [op |-> "decide", decision |-> Decide(fin.tier, fin.st)]
  /\ pc' = "returned"
  /\ UNCHANGED <<hand, deck, sim, branch, stack, seen, best, nid, scored, result, fin, scores, previous, keyScores, variantVars, editorVars>>

DecideNext == DecideCall

DecideSpec == DecideInit /\ [][DecideNext]_vars

(* ---------------- direct calls of parseCmc and parseManaCostReq -------- *)

\* Symbol groups of mana-cost strings: numbers, colors, {C}, variables, hybrid and
\* Phyrexian groups, and groups the parsers have no case for ({S}, {Q}, {hw}).
SupportedGroups ==
  {<<"0">>, <<"1">>, <<"2">>, <<"1", "0">>,
   <<"W">>, <<"U">>, <<"B">>, <<"R">>, <<"G">>, <<"C">>, <<"X">>, <<"Y">>, <<"Z">>,
   <<"U", "/", "P">>, <<"2", "/", "W">>, <<"W", "/", "U">>}

UnknownGroups == {<<"S">>, <<"Q">>, <<"h", "w">>}

CostGroups == SupportedGroups \cup UnknownGroups

CostStrings ==
  {NoCost} \cup {Str(gs) : gs \in UNION {[1..n -> CostGroups] : n \in 0..MaxGroups}}

ParseInit ==
  /\ fin \in {[op |-> "parse", manaCost |-> c] : c \in CostStrings}
  /\ fout = NoCall
  /\ pc = "call"
  /\ hand = <<>>
  /\ deck = {}
  /\ sim = NoSim
  /\ branch = 1
  /\ stack = <<>>
  /\ seen = {}
  /\ best = best0
  /\ nid = 0
  /\ scored = 0
  /\ result = NoResult
  /\ scores = {}
  /\ previous = NoResult
  /\ keyScores = {}
  /\ CodeVariant
  /\ NoEditor

\* parseManaCostReq(manaCost) and parseCmc(manaCost) on the same string.
ParseCall ==
  /\ pc = "call"
  /\ fin.op = "parse"
  /\ fout' = [op |-> "parse", req |-> parseManaCostReq(fin.manaCost), cmc |-> parseCmc(fin.manaCost)]
  /\ pc' = "returned"
  /\ UNCHANGED <<hand, deck, sim, branch, stack, seen, best, nid, scored, result, fin, scores, previous, keyScores, variantVars, editorVars>>

ParseNext == ParseCall

ParseSpec == ParseInit /\ [][ParseNext]_vars

(* ------------------------------ other action orders ------------------ *)

\* The hand is evaluated with the code's order of the action list, then once
\* more with another order; the score and tier of the first best record are kept,
\* and whether the first evaluation returned.
OrderInit == Init /\ hand \in ComboHands

Restart ==
  /\ previousBest' = [score |-> best.score, tier |-> best.tier, returned |-> pc = "done"]
  /\ result' = NoResult
  /\ pc' = "start"
  /\ sim' = NoSim
  /\ branch' = 1
  /\ seen' = {}
  /\ best' = best0
  /\ scored' = 0
  /\ scores' = {}
  /\ keyScores' = {}

EvaluateReordered ==
  /\ pc = "done"
  /\ previousBest = NoBest
  /\ order' \in {"tapsFirst", "reversed"}
  /\ Restart
  /\ UNCHANGED <<hand, deck, stack, nid, fin, fout, previous, cutoff, editorVars>>

OrderNext == Next \/ EvaluateReordered

OrderSpec == OrderInit /\ [][OrderNext]_vars

(* ------------------------------ no depth cutoff ----------------------- *)

\* The hand is evaluated as the code does, then once more by a dfs without the
\* return at depth 18.
EvaluateUncut ==
  /\ pc \in {"done", "error"}
  /\ previousBest = NoBest
  /\ cutoff' = FALSE
  /\ Restart
  /\ UNCHANGED <<hand, deck, stack, nid, fin, fout, previous, order, editorVars>>

CutoffNext == Next \/ EvaluateUncut

CutoffSpec == OrderInit /\ [][CutoffNext]_vars

(* ------------------------------ deck editor --------------------------- *)

\* The state of an evaluation, which the editor handlers leave alone.
evalVars == <<hand, deck, pc, sim, branch, stack, seen, best, nid, scored, result, fin, fout, scores,
              previous, keyScores, variantVars>>

\* A card object {name, manaCost, typeLine} of the deck data.
CardOf(name) == [name |-> name, manaCost |-> Catalog[name].manaCost, typeLine |-> Catalog[name].typeLine]

\* import ... from "./land-flex-options.json" etc.: the option lists of the three kinds.
landFlexOptions == <<CardOf("Strip Mine")>>

spellFlexOptions == <<CardOf("Brainstorm"), CardOf("Time Walk")>>

sideboardFlexOptions == <<CardOf("Hurkyl's Recall")>>

\* An entry of deckData: flexOptions is initially empty.
DeckEntry(name, locked) == [card |-> CardOf(name), count |-> 1, locked |-> locked, flexOptions |-> <<>>]

Mainboards == {<<DeckEntry("Island", l1)>> : l1 \in BOOLEAN}

Sideboards == {<<DeckEntry("Force of Will", TRUE), DeckEntry("Mental Misstep", FALSE)>>}

\* isLand applied to a card object.
IsLandCard(card) == "land" \in card.typeLine

assignFlexOptions(mainboard) ==
  [k \in 1..Len(mainboard) |->
     IF mainboard[k].locked THEN mainboard[k]
     ELSE [mainboard[k] EXCEPT !.flexOptions =
             IF IsLandCard(mainboard[k].card) THEN landFlexOptions ELSE spellFlexOptions]]

assignSideboardFlexOptions(sideboard) ==
  [k \in 1..Len(sideboard) |-> [sideboard[k] EXCEPT !.flexOptions = sideboardFlexOptions]]

\* Input that is empty or already written with braces is returned as it is;
\* the editor inputs of this model are of these two forms.
normalizeManaInput(raw) == IF raw.groups = <<>> THEN NoCost ELSE raw

ConfigOf(zone) == IF zone = "main" THEN mainConfig ELSE sideConfig

\* Entries are numbered from 1 here and from 0 in the code.
HasEntry(config, entryIndex) == entryIndex \in 1..Len(config)

\* A locked entry can be selected like any other.
handleCardClick_mut(zone, entryIndex) ==
  /\ pc = "editor"
  /\ LET config == ConfigOf(zone)
     IN IF ~HasEntry(config, entryIndex) THEN UNCHANGED selectedFlex
        ELSE IF config[entryIndex].flexOptions = <<>> THEN UNCHANGED selectedFlex
        ELSE selectedFlex' = [zone |-> zone, entryIndex |-> entryIndex]
  /\ UNCHANGED <<mainConfig, sideConfig, evalVars>>

handleCardClick(zone, entryIndex) ==
  /\ pc = "editor"
  /\ LET config == ConfigOf(zone)
     IN IF ~HasEntry(config, entryIndex) THEN UNCHANGED selectedFlex
        ELSE IF config[entryIndex].locked THEN UNCHANGED selectedFlex
        ELSE IF config[entryIndex].flexOptions = <<>> THEN UNCHANGED selectedFlex
        ELSE selectedFlex' = [zone |-> zone, entryIndex |-> entryIndex]
  /\ UNCHANGED <<mainConfig, sideConfig, evalVars>>

\* prev.map((e, idx) => (idx === entryIndex ? { ...e, card: { ...chosenCard } } : e))
SetCard(config, entryIndex, chosenCard) ==
  [k \in 1..Len(config) |-> IF k = entryIndex THEN [config[k] EXCEPT !.card = chosenCard] ELSE config[k]]

\* optionIndex is -1 for the current card, otherwise an index from 0 into flexOptions.
applyFlexChoice(optionIndex) ==
  /\ pc = "editor"
  /\ IF selectedFlex = NoSelection THEN UNCHANGED editorVars
     ELSE LET zone == selectedFlex.zone
              entryIndex == selectedFlex.entryIndex
              config == ConfigOf(zone)
          IN IF ~HasEntry(config, entryIndex) THEN UNCHANGED editorVars
             ELSE IF optionIndex # -1 /\ optionIndex + 1 \notin 1..Len(config[entryIndex].flexOptions)
               THEN UNCHANGED editorVars
             ELSE LET chosenCard == IF optionIndex = -1 THEN config[entryIndex].card
                                    ELSE config[entryIndex].flexOptions[optionIndex + 1]
                  IN /\ IF zone = "main"
                          THEN mainConfig' = SetCard(mainConfig, entryIndex, chosenCard)
                               /\ UNCHANGED sideConfig
                          ELSE sideConfig' = SetCard(sideConfig, entryIndex, chosenCard)
                               /\ UNCHANGED mainConfig
                     /\ selectedFlex' = NoSelection
  /\ UNCHANGED evalVars

\* prev.map((e, idx) => idx === entryIndex ? { ...e, flexOptions: [...(e.flexOptions || []), newCard] } : e)
AddOption(config, entryIndex, newCard) ==
  [k \in 1..Len(config) |->
     IF k = entryIndex THEN [config[k] EXCEPT !.flexOptions = Append(@, newCard)] ELSE config[k]]

handleAddCardToFlex(newCard) ==
  /\ pc = "editor"
  /\ IF selectedFlex = NoSelection THEN UNCHANGED editorVars
     ELSE /\ HasEntry(ConfigOf(selectedFlex.zone), selectedFlex.entryIndex)
             => Len(ConfigOf(selectedFlex.zone)[selectedFlex.entryIndex].flexOptions) < MaxOptions
          /\ IF selectedFlex.zone = "main"
               THEN mainConfig' = AddOption(mainConfig, selectedFlex.entryIndex, newCard)
                    /\ UNCHANGED sideConfig
               ELSE sideConfig' = AddOption(sideConfig, selectedFlex.entryIndex, newCard)
                    /\ UNCHANGED mainConfig
          /\ UNCHANGED selectedFlex
  /\ UNCHANGED evalVars

\* name and typeLine are given trimmed; an empty one makes the handler return.
handleAddCardSubmit(name, rawCost, typeLine) ==
  /\ pc = "editor"
  /\ Len(mainConfig) < MaxEntries
  /\ IF name = "" \/ typeLine = {} THEN UNCHANGED mainConfig
     ELSE mainConfig' = Append(mainConfig,
            [card |-> [name |-> name, manaCost |-> normalizeManaInput(rawCost), typeLine |-> typeLine],
             count |-> 1,
             locked |-> FALSE,
             flexOptions |-> IF "land" \in typeLine THEN landFlexOptions ELSE spellFlexOptions])
  /\ UNCHANGED <<sideConfig, selectedFlex, evalVars>>

\* FlexModal's onClose: setSelectedFlex(null).
closeFlexModal ==
  /\ pc = "editor"
  /\ selectedFlex' = NoSelection
  /\ UNCHANGED <<mainConfig, sideConfig, evalVars>>

\* The cards typed into the two add forms.
TypedNames == {"", "Mox Ruby"}

TypedCosts == {NoCost}

TypedTypeLines == {{}, {"land"}}

TypedFlexCards == {[name |-> "Ponder", manaCost |-> Str(<<S("U")>>), typeLine |-> {"sorcery"}]}

EditorInit ==
  /\ \E mainboard \in Mainboards : mainConfig = assignFlexOptions(mainboard)
  /\ \E sideboard \in Sideboards : sideConfig = assignSideboardFlexOptions(sideboard)
  /\ selectedFlex = NoSelection
  /\ pc = "editor"
  /\ hand = <<>>
  /\ deck = {}
  /\ sim = NoSim
  /\ branch = 1
  /\ stack = <<>>
  /\ seen = {}
  /\ best = best0
  /\ nid = 0
  /\ scored = 0
  /\ result = NoResult
  /\ scores = {}
  /\ previous = NoResult
  /\ keyScores = {}
  /\ CodeVariant
  /\ fin = NoCall
  /\ fout = NoCall

EditorNext ==
  \/ \E zone \in {"main", "side"}, entryIndex \in 0..(MaxEntries + 1) : handleCardClick(zone, entryIndex)
  \/ \E optionIndex \in -1..MaxOptions : applyFlexChoice(optionIndex)
  \/ \E newCard \in TypedFlexCards : handleAddCardToFlex(newCard)
  \/ \E name \in TypedNames, rawCost \in TypedCosts, typeLine \in TypedTypeLines :
        handleAddCardSubmit(name, rawCost, typeLine)
  \/ closeFlexModal

EditorSpec == EditorInit /\ [][EditorNext]_vars

(* ------------------------------- properties --------------------------- *)

\* The search state of the innermost dfs call (every state the search constructs
\* is the innermost one when it is entered).
Visiting == pc = "run" /\ stack # <<>>

Cur == Top.state

\* C1: every evaluation completes with a decision and a trace; no action
\* application ends in an exception.
C1_NoException == pc # "error"

\* C2 (as stated): canPay(pool, cost) is true if and only if pay(pool, cost) has
\* no negative field.
C2_CanPayIffPayNonNegative ==
  (pc = "returned" /\ fout.op = "pay") => (fout.can <=> NonNegative(fout.paid))

\* C2 (amended): if canPay(pool, cost) is true, pay(pool, cost) has no negative
\* field and holds exactly the cost's total less mana than pool; pay has no
\* negative field either when canPay is false.
C2_CanPayImpliesPayNonNegative ==
  (pc = "returned" /\ fout.op = "pay") =>
     /\ NonNegative(fout.paid)
     /\ fout.can => sumMana(fout.paid) = sumMana(fin.pool) - ReqTotal(parseManaCostReq(fin.manaCost))

C2_Witness ==
  /\ pc = "returned" /\ fout.op = "pay"
  /\ fout.can
  /\ fin.pool.flex = 1 /\ fin.pool.C = 1 /\ fin.pool.U = 1
  /\ parseManaCostReq(fin.manaCost) = [ZeroReq EXCEPT !.generic = 1, !.B = 1]
  /\ fout.paid = [emptyPool EXCEPT !.U = 1]

\* Permanents on the battlefield that came from the hand: all but an Academy
\* fetched by Crop Rotation.
FetchedCount(state) ==
  Cardinality({k \in 1..Len(state.notes) : state.notes[k][1] = "Crop Rotation"})

FromHandCount(state) == Len(state.battlefield) - FetchedCount(state)

UnchosenLands(h) == Max(0, CountIf(h, isLand) - 1)

CrackedCount(state) ==
  Cardinality({k \in 1..Len(state.notes) : state.notes[k][1] = "Sac"})

NonPermanentCasts(state) ==
  CountIf(state.cast, LAMBDA c : ~(isArtifact(c) \/ isPlaneswalker(c)))

CanStep ==
  \/ pc = "start"
  \/ pc = "run" /\ stack = <<>>
  \/ pc = "run" /\ stack # <<>> /\ Top.phase \in {"enter", "loop"}

\* C4: the search terminates and simulateTurn1 returns a result: the evaluation
\* has a next step until analyzeMulligan has returned, and the dfs call stack
\* never holds more than DepthLimit + 1 calls.
C4_SearchReturns == (pc = "done" \/ CanStep) /\ Len(stack) <= DepthLimit + 1

\* C5: within one root branch a canonical key is scored at most once (the number
\* of scoreState calls equals the number of keys seen), and a dfs call entered
\* with a key already seen returns without scoring and without applying an action.
C5_NoRevisit ==
  /\ [](pc = "run" => scored = Cardinality(seen))
  /\ [][(Visiting /\ Top.phase = "enter" /\ Key(Cur) \in seen)
          => (stack' = Pop /\ best' = best /\ scored' = scored /\ seen' = seen /\ nid' = nid)]_vars

C5_Witness ==
  /\ Visiting /\ Top.phase = "enter" /\ Key(Cur) \in seen
  /\ scored >= 2

BasicLandOf == ("Ancestral Recall" :> "Island") @@ ("Brainstorm" :> "Island")
               @@ ("Mystical Tutor" :> "Island") @@ ("Vampiric Tutor" :> "Swamp")

\* C6 (as stated): four basic lands of one colour, a one-mana selection spell of
\* that colour and two unrelated high-cost cards: the best line casts the spell,
\* tier >= 1, KEEP.
C6_ScenarioA ==
  (pc = "done" /\ hand \in FourLandHands /\ hand[1] = BasicLandOf[hand[5]]) =>
     /\ hand[5] \in Range(best.final.cast)
     /\ result.stats.tier >= 1
     /\ result.decision = "KEEP"

\* C6 (amended): with four City of Brass or Mana Confluence (lands that tap for
\* any colour) the best line casts the selection spell, tier >= 1 and the decision
\* is KEEP; with four lands outside the special cases (Island, Swamp, Strip Mine),
\* which tap for strict-colorless only, no spell is cast, the tier is 0 and the
\* decision is MULLIGAN.
C6_ScenarioA_AnyColorLand ==
  (pc = "done" /\ hand \in FourLandHands) =>
     IF hand[1] \in {"City of Brass", "Mana Confluence"}
       THEN /\ hand[5] \in Range(best.final.cast)
            /\ <<"Cast", hand[5]>> \in Range(result.line)
            /\ result.stats.tier >= 1
            /\ result.decision = "KEEP"
       ELSE /\ best.final.cast = <<>>
            /\ result.stats.tier = 0
            /\ result.decision = "MULLIGAN"

C6_Witness ==
  /\ pc = "done"
  /\ hand = Repeat("City of Brass", 4) \o <<"Ancestral Recall">> \o Unrelated
  /\ best.final.cast = <<"Ancestral Recall">>
  /\ result.decision = "KEEP"

\* C7 (as stated): the two cards of a combined detector plus two lands of the
\* required colour: tier 3, KEEP, reasons include the tier-3 label.
C7_ScenarioC ==
  (pc = "done" /\ hand = DemonicVaultLandHand) =>
     /\ result.stats.tier = 3
     /\ result.decision = "KEEP"
     /\ "Virtual win / hard lock line found" \in Range(result.reasons)

\* C7 (amended): the Demonic Tutor + Time Vault detector needs total pool >= 5 and
\* pool.B >= 1; with Mox Jet, Black Lotus and Mana Crypt beside the two cards the
\* tier is 3, the decision KEEP and the reasons include the tier-3 label; with two
\* Swamps instead (one land is played and taps for one strict-colorless) no
\* detector fires: tier 0, the no-line reason, MULLIGAN.
C7_ScenarioC_FastMana ==
  /\ (pc = "done" /\ hand = DemonicVaultFastHand) =>
        /\ result.stats.tier = 3
        /\ best.final.pool.B >= 1 /\ sumMana(best.final.pool) >= 5
        /\ result.decision = "KEEP"
        /\ "Virtual win / hard lock line found" \in Range(result.reasons)
  /\ (hand = DemonicVaultLandHand) =>
        /\ Visiting => sumMana(Cur.pool) <= 1 /\ Cur.pool.B = 0
        /\ pc = "done" =>
             /\ result.stats.tier = 0
             /\ result.decision = "MULLIGAN"
             /\ "No coherent T1 line found" \in Range(result.reasons)

C7_Witness ==
  /\ pc = "done"
  /\ hand = DemonicVaultFastHand
  /\ scoreState(best.final).flags.demonicVaultWin
  /\ result.stats.tier = 3

\* C8: seven high-cost spells, no land, no fast-mana artifact: every visited state
\* has total pool 0, the tier is 0, the decision MULLIGAN and the reasons include
\* the "0 lands" flag.
C8_ScenarioB ==
  (hand \in HighCostHands) =>
     /\ Visiting => sumMana(Cur.pool) = 0
     /\ pc = "done" =>
          /\ result.stats.tier = 0
          /\ result.decision = "MULLIGAN"
          /\ "0 lands" \in Range(result.reasons)

C8_Witness ==
  /\ pc = "done"
  /\ hand \in HighCostHands
  /\ "Tinker" \in Range(hand) /\ "Trinisphere" \in Range(hand)
  /\ result.decision = "MULLIGAN"
  /\ result.stats.lands = 0

IsPaidCast(a) ==
  a.kind = "cast" /\ a.name \notin forcedFree /\ parseCmc(manaCostOf(a.name)) > 0

\* C10: in every state the search reaches all seven pool fields are >= 0, and
\* every cast action that pays is generated for (and applied to) a state whose
\* pool satisfies canPay for the card's cost.
C10_PoolNonNegative ==
  Visiting =>
     /\ NonNegative(Cur.pool)
     /\ \A k \in 1..Len(Top.actions) :
          IsPaidCast(Top.actions[k]) => canPay(Cur.pool, manaCostOf(Top.actions[k].name))

C10_Witness ==
  /\ Visiting
  /\ Cur.cast = <<"Tinker">>
  /\ Cur.pool = [emptyPool EXCEPT !.flex = 2]


\* Mana in the fields other than C.
NonCMana(p) == sumMana(p) - p.C

\* C11: a {C} requirement is paid from the C field only: canPay is false whenever
\* pool.C is below the {C} requirement, and pay takes from flex and the colored
\* fields no more than the rest of the cost (generic and colored) asks for.
C11_StrictColorlessOnlyFromC ==
  (pc = "returned" /\ fout.op = "pay") =>
     LET req == parseManaCostReq(fin.manaCost)
     IN /\ fin.pool.C < req.C => ~fout.can
        /\ NonCMana(fin.pool) - NonCMana(fout.paid) <= ReqTotal(req) - req.C

\* The pool after the {C} and colored parts of the fixed procedure: C less the {C}
\* requirement, each color less its requirement, the shortfalls taken from flex.
AfterColored(pool, req) ==
  [k \in PoolFields |->
     IF k = "C" THEN pool.C - req.C
     ELSE IF k = "flex"
       THEN pool.flex - (Max(req.W - pool.W, 0) + Max(req.U - pool.U, 0) + Max(req.B - pool.B, 0)
                         + Max(req.R - pool.R, 0) + Max(req.G - pool.G, 0))
     ELSE Max(pool[k] - req[k], 0)]

\* Position of a pool field in the order C, flex, W, U, B, R, G.
GenericRank(k) == CHOOSE i \in 1..7 : <<"C", "flex", "W", "U", "B", "R", "G">>[i] = k

\* Mana of pool a in the fields that come before k in that order.
ManaBefore(a, k) ==
  LET Earlier == {j \in PoolFields : GenericRank(j) < GenericRank(k)}
      RECURSIVE SumOver(_)
      SumOver(s) == IF s = {} THEN 0 ELSE LET j == CHOOSE x \in s : TRUE IN a[j] + SumOver(s \ {j})
  IN SumOver(Earlier)

\* The result of the fixed payment procedure in closed form: field k gives to the
\* generic amount what the fields before it have left unpaid.
FixedProcedure(pool, req) ==
  LET a == AfterColored(pool, req)
  IN [k \in PoolFields |-> a[k] - Min(a[k], Max(req.generic - ManaBefore(a, k), 0))]

\* C12: whenever canPay holds, pay returns exactly the pool of the fixed procedure
\* ({C} from C; each color from itself, then flex; generic from C, flex, W, U, B,
\* R, G in that order).
C12_PayFixedOrder ==
  (pc = "returned" /\ fout.op = "pay" /\ fout.can) =>
     fout.paid = FixedProcedure(fin.pool, parseManaCostReq(fin.manaCost))

\* A generic cost of 2 paid from C and flex while W is left.
C12_Witness ==
  /\ pc = "returned" /\ fout.op = "pay" /\ fout.can
  /\ parseManaCostReq(fin.manaCost) = [ZeroReq EXCEPT !.generic = 2]
  /\ fin.pool = [emptyPool EXCEPT !.C = 1, !.flex = 1, !.W = 1]
  /\ fout.paid = [emptyPool EXCEPT !.W = 1]


\* A group one of the cases of the parsers is written for.
IsSupportedGroup(g) ==
  AllDigits(g) \/ g \in {<<"W">>, <<"U">>, <<"B">>, <<"R">>, <<"G">>, <<"C">>, <<"X">>, <<"Y">>, <<"Z">>}
  \/ HasSlash(g)

\* The cost string without its unsupported groups, and the number of those groups.
SupportedPart(manaCost) == [manaCost EXCEPT !.groups = SelectSeq(@, IsSupportedGroup)]

UnsupportedCount(manaCost) == Len(manaCost.groups) - Len(SupportedPart(manaCost).groups)

\* C13 (as stated): an unsupported group is ignored: the requirement and the mana
\* value are those of the string without it.
C13_UnknownGroupIgnored ==
  (pc = "returned" /\ fout.op = "parse") =>
     /\ fout.req = parseManaCostReq(SupportedPart(fin.manaCost))
     /\ fout.cmc = parseCmc(SupportedPart(fin.manaCost))

\* C13 (amended): an unsupported group counts as one generic mana: it adds 1 to
\* the generic field of the requirement and 1 to the mana value, and nothing to
\* any other field.
C13_UnknownGroupIsOneGeneric ==
  (pc = "returned" /\ fout.op = "parse") =>
     /\ fout.req = [parseManaCostReq(SupportedPart(fin.manaCost))
                      EXCEPT !.generic = @ + UnsupportedCount(fin.manaCost)]
     /\ fout.cmc = parseCmc(SupportedPart(fin.manaCost)) + UnsupportedCount(fin.manaCost)

C13_Witness ==
  /\ pc = "returned" /\ fout.op = "parse"
  /\ fin.manaCost = Str(<< <<"S">>, <<"U">> >>)
  /\ fout.req = [ZeroReq EXCEPT !.generic = 1, !.U = 1]
  /\ fout.cmc = 2

\* Slash groups whose first alternative is "2" ({2/W}).
IsTwoHybrid(g) == HasSlash(g) /\ BeforeSlash(g) = <<"2">>

AllSupported(manaCost) == \A k \in 1..Len(manaCost.groups) : IsSupportedGroup(manaCost.groups[k])

\* C14 (as stated): for a string of supported groups the mana value equals the
\* sum of the fields of the requirement.
C14_ManaValueIsReqTotal ==
  (pc = "returned" /\ fout.op = "parse" /\ AllSupported(fin.manaCost)) =>
     fout.cmc = ReqTotal(fout.req)

\* C14 (amended): for a string of supported groups the mana value equals the sum
\* of the fields of the requirement plus one for every slash group whose first
\* alternative is 2.
C14_ManaValueIsReqTotalPlusTwoHybrids ==
  (pc = "returned" /\ fout.op = "parse" /\ AllSupported(fin.manaCost)) =>
     fout.cmc = ReqTotal(fout.req) + CountIf(fin.manaCost.groups, IsTwoHybrid)

C14_Witness ==
  /\ pc = "returned" /\ fout.op = "parse"
  /\ fin.manaCost = Str(<< <<"2", "/", "W">>, <<"X">> >>)
  /\ fout.cmc = 2
  /\ ReqTotal(fout.req) = 1


\* The tap actions generated for the permanent with the given id.
TapsOf(state, id) ==
  SelectSeq(untappedManaPermanents(state), LAMBDA a : a.id = id)

\* C15: an untapped Mox Opal on the battlefield has a tap action exactly when 3 or
\* more artifacts are on the battlefield; the action adds one flex mana and taps
\* it.
C15_MoxOpalMetalcraft ==
  Visiting =>
    \A k \in 1..Len(Cur.battlefield) :
      LET perm == Cur.battlefield[k]
          taps == TapsOf(Cur, perm.id)
      IN (perm.name = "Mox Opal" /\ ~perm.tapped) =>
           IF getArtifactsCount(Cur.battlefield) >= 3
             THEN /\ Len(taps) = 1
                  /\ RunTap(taps[1], Cur).pool = addPool(Cur.pool, "flex", 1)
                  /\ RunTap(taps[1], Cur).battlefield = TapPerm(Cur.battlefield, perm.id)
             ELSE taps = <<>>

\* The hand positions the action generator is to emit a cast action for.
CastPositions(state) ==
  {k \in 1..Len(state.hand) :
     LET name == state.hand[k]
     IN /\ name \in IMPORTANT_CASTS
        /\ \/ (isArtifact(name) /\ parseCmc(manaCostOf(name)) = 0)
           \/ name \in forcedFree
           \/ canPay(state.pool, manaCostOf(name))}

\* The cast actions among the actions of the innermost dfs call.
GeneratedCasts == SelectSeq(Actions(Cur), LAMBDA a : a.kind = "cast")

\* C16: in every state the cast actions are exactly (one each, in hand order) the
\* hand cards that are on the whitelist and are a mana-value-0 artifact, forced
\* free or payable from the pool; every card in the cast history is on the
\* whitelist, and every card being cast is free or payable in the state it is
\* cast from.
C16_CastActionsExact ==
  Visiting =>
    /\ LET casts == GeneratedCasts
           positions == CastPositions(Cur)
       IN /\ {casts[j].i : j \in 1..Len(casts)} = positions
          /\ Len(casts) = Cardinality(positions)
          /\ \A j \in 1..Len(casts) : casts[j].name = Cur.hand[casts[j].i]
    /\ \A j \in 1..Len(Cur.cast) : Cur.cast[j] \in IMPORTANT_CASTS
    /\ (Top.phase = "loop" /\ Top.next <= Len(Top.actions) /\ Top.actions[Top.next].kind = "cast") =>
         /\ Top.actions[Top.next].i \in CastPositions(Cur)
         /\ Top.actions = Actions(Cur)

\* A payable card outside the whitelist (Hurkyl's Recall) in hand next to a
\* whitelisted payable one (Time Vault), the latter about to be cast.
C16_Witness ==
  /\ Visiting /\ Top.phase = "loop" /\ Top.next <= Len(Top.actions)
  /\ Top.actions[Top.next].name = "Time Vault"
  /\ "Hurkyl's Recall" \in Range(Cur.hand)
  /\ canPay(Cur.pool, manaCostOf("Hurkyl's Recall"))
  /\ Len(GeneratedCasts) = 1


\* A step of the action loop that applies an action: the action, and the state
\* run returned (the state of the new innermost call).
Applies == pc = "run" /\ stack # <<>> /\ Top.phase = "loop" /\ Len(stack') = Len(stack) + 1

Applied == Top.actions[Top.next]

Returned == stack'[Len(stack')].state

\* What the claim says a cast action a makes of state s: c.
CastEffect(a, s, c) ==
  LET name == a.name
      n == Len(s.battlefield)
  IN /\ a.i \in 1..Len(s.hand) /\ s.hand[a.i] = name
     /\ c.hand = [k \in 1..(Len(s.hand) - 1) |-> IF k < a.i THEN s.hand[k] ELSE s.hand[k + 1]]
     /\ c.cast = Append(s.cast, name)
     /\ c.pool = IF name \in forcedFree \/ parseCmc(manaCostOf(name)) = 0 THEN s.pool
                 ELSE pay(s.pool, manaCostOf(name))
     /\ IF isArtifact(name) \/ isPlaneswalker(name)
          THEN /\ Len(c.battlefield) = n + 1
               /\ SubSeq(c.battlefield, 1, n) = s.battlefield
               /\ c.battlefield[n + 1].name = name
               /\ ~c.battlefield[n + 1].tapped
               /\ \A k \in 1..n : s.battlefield[k].id # c.battlefield[n + 1].id
          ELSE c.battlefield = s.battlefield

ScriptedCasts == {"Paradoxical Outcome", "Crop Rotation", "Tinker"}

C18_ActionsLeaveStateUnchanged ==
  [][/\ \A k \in 1..Min(Len(stack), Len(stack')) :
          /\ stack'[k].state = stack[k].state
          /\ stack[k].phase = "loop" => stack'[k].actions = stack[k].actions
     /\ Applies =>
          /\ Returned # Top.state
          /\ Returned = Run(Applied, stack'[Len(stack)].state, nid, deck).s
          /\ stack'[Len(stack)].actions = Actions(stack'[Len(stack)].state)]_vars

\* A call whose second action is about to be applied, after the first one's
\* subtree has been searched.
C18_Witness ==
  /\ Visiting
  /\ Top.phase = "loop" /\ Top.next = 2 /\ Len(Top.actions) >= 2
  /\ Top.actions[1].kind = "cast"
  /\ Cardinality(seen) >= 3

\* The largest score among the scored states, and the largest tier among the
\* scored states with that score.
MaxScore == CHOOSE m \in {s.score : s \in scores} : \A s \in scores : s.score <= m

MaxTierAtMaxScore ==
  CHOOSE m \in {s.tier : s \in {x \in scores : x.score = MaxScore}} :
    \A s \in scores : s.score = MaxScore => s.tier <= m

\* C19: when the search ends, the best score is the maximum score over all states
\* scored in all land-choice branches, and the best tier is the highest tier
\* among the states with that score.
C19_BestIsMaximum ==
  ((pc = "done" \/ (pc = "returned" /\ fout.op = "best")) /\ scores # {}) =>
     /\ best.score = MaxScore
     /\ best.tier = MaxTierAtMaxScore

\* Two states of equal, maximal score, the one of lower tier scored first: the
\* tier decides.
C19_Witness ==
  /\ pc = "returned" /\ fout.op = "best"
  /\ Scored(fin.visited[1]).score = Scored(fin.visited[2]).score
  /\ Scored(fin.visited[1]).tier < Scored(fin.visited[2]).tier
  /\ best.tier = Scored(fin.visited[2]).tier

\* C20: the result for a hand evaluated after an earlier evaluation is the result
\* of evaluating it first.
C20_ResultIndependentOfHistory ==
  (pc = "done" /\ previous # NoResult) => result = previous

\* A second evaluation, started with the id counter the first one left, done.
C20_Witness ==
  /\ pc = "done"
  /\ previous # NoResult
  /\ nid >= 6
  /\ Len(result.line) >= 4


(* ------------------------------ C21 ----------------------------------- *)

\* C21: the returned line is the first min(12, n) entries, in order, of the
\* n-entry trace of the best state, and stats.tier is the tier scoreState gives
\* that same state.
C21_LineAndTier ==
  pc = "done" =>
    /\ best.final # NoState
    /\ Len(result.line) = Min(LineLimit, Len(best.final.notes))
    /\ \A k \in 1..Len(result.line) : result.line[k] = best.final.notes[k]
    /\ result.stats.tier = scoreState(best.final).tier
    /\ best.score = scoreState(best.final).score

\* An evaluation has returned a line cut to 12 entries from a longer trace.
C21_Witness ==
  /\ pc = "done"
  /\ Len(best.final.notes) > LineLimit
  /\ Len(result.line) = LineLimit
  /\ result.stats.tier = best.tier


(* ------------------------------ C22 ----------------------------------- *)

EntryAt(main, side, sel) == IF sel.zone = "main" THEN main[sel.entryIndex] ELSE side[sel.entryIndex]

\* From config to next, the cards of all entries are kept, except at the
\* selected entry when the zone is the selected one.
OnlySelectedChanges(zone, config, next) ==
  /\ Len(next) >= Len(config)
  /\ \A k \in 1..Len(config) :
        /\ next[k].locked = config[k].locked
        /\ config[k].locked => next[k].card = config[k].card
        /\ next[k].card # config[k].card =>
              selectedFlex # NoSelection /\ selectedFlex.zone = zone /\ selectedFlex.entryIndex = k

\* C22: no editor operation changes the card of a locked mainboard or sideboard
\* entry: a click never selects a locked entry, and a flex choice replaces only
\* the card of the selected entry.
C22_LockedEntriesKeepCard ==
  [][/\ OnlySelectedChanges("main", mainConfig, mainConfig')
     /\ OnlySelectedChanges("side", sideConfig, sideConfig')
     /\ selectedFlex' # NoSelection =>
           /\ HasEntry(IF selectedFlex'.zone = "main" THEN mainConfig' ELSE sideConfig', selectedFlex'.entryIndex)
           /\ ~EntryAt(mainConfig', sideConfig', selectedFlex').locked]_vars

\* A flex choice has replaced the card of an unlocked sideboard entry by one of its
\* options while a locked sideboard entry, which has options too, kept its card.
C22_Witness ==
  /\ pc = "editor"
  /\ selectedFlex = NoSelection
  /\ Len(sideConfig) = 2
  /\ sideConfig[1].locked /\ sideConfig[1].flexOptions # <<>> /\ sideConfig[1].card.name = "Force of Will"
  /\ ~sideConfig[2].locked /\ sideConfig[2].card.name = "Hurkyl's Recall"
  /\ \E k \in 1..Len(mainConfig) : mainConfig[k].locked


(* ------------------------------ C23 ----------------------------------- *)

MaxTier == CHOOSE m \in {s.tier : s \in scores} : \A s \in scores : s.tier <= m

\* C23: the tier returned by the search is the highest tier of any state it
\* scored, over all land choices.
C23_TierIsHighestVisited ==
  pc = "done" => best.tier = MaxTier /\ result.stats.tier = MaxTier


(* ------------------------------ C24 ----------------------------------- *)

\* C24: within one root branch, a state entered by dfs has the score and tier of
\* every state scored earlier under the same key (so that skipping it loses
\* nothing).
C24_SameKeySameScore ==
  Visiting /\ Top.phase = "enter" =>
    \A r \in keyScores :
      r.key = Key(Cur) => r.score = scoreState(Cur).score /\ r.tier = scoreState(Cur).tier


(* ------------------------------ C25 ----------------------------------- *)

\* C25: the best score and tier of the search are the same whatever the order
\* in which the actions of a node are explored.
C25_BestIndependentOfOrder ==
  pc = "done" /\ previousBest # NoBest =>
    best.score = previousBest.score /\ best.tier = previousBest.tier


(* ------------------------------ C26 ----------------------------------- *)

\* C26: the search without the depth cutoff terminates (it has a next step until
\* it has ended, and its call stack stays bounded), ends as the search with the
\* cutoff did, and returns the same best score and tier.
C26_CutoffNotNeeded ==
  /\ ~cutoff => Len(stack) <= 6 * HandSize /\ (pc \in {"done", "error"} \/ CanStep)
  /\ ~cutoff /\ pc \in {"done", "error"} => (pc = "done") = previousBest.returned
  /\ ~cutoff /\ pc = "done" => best.score = previousBest.score /\ best.tier = previousBest.tier


(* ------------------------------ C27 ----------------------------------- *)

\* Number of cards in hand + number of untapped permanents on the battlefield.
Quantity(state) ==
  Len(state.hand) + Cardinality({k \in 1..Len(state.battlefield) : ~state.battlefield[k].tapped})

TappedArtifacts(state) ==
  Cardinality({k \in 1..Len(state.battlefield) :
                 state.battlefield[k].tapped /\ isArtifact(state.battlefield[k].name)})

\* C27 as stated: every action application strictly decreases the quantity.
C27_EveryActionDecreases ==
  [][Applies => Quantity(Returned) < Quantity(Top.state)]_vars

\* Crop Rotation sacrifices a tapped land of state s for an untapped Tolarian Academy.
SacrificesTappedLand(s) ==
  /\ \E k \in 1..Len(s.battlefield) : isLand(s.battlefield[k].name)
  /\ getArtifactsCount(s.battlefield) >= 2
  /\ "Tolarian Academy" \in deck
  /\ FirstLand(s.battlefield).tapped

QuantityChange(a, s) ==
  IF a.kind # "cast" THEN -1
  ELSE IF a.name = "Paradoxical Outcome" THEN TappedArtifacts(s) - 1
  ELSE IF a.name = "Crop Rotation" THEN (IF SacrificesTappedLand(s) THEN 0 ELSE -1)
  ELSE IF isArtifact(a.name) \/ isPlaneswalker(a.name) THEN 0
  ELSE -1

\* C27, amended: a tap and a cast of a non-permanent card decrease the quantity
\* by one, a cast of an artifact or planeswalker leaves it unchanged, Crop
\* Rotation leaves it unchanged when it sacrifices a tapped land, and Paradoxical
\* Outcome changes it by the number of tapped artifacts minus one.
C27_QuantityChange ==
  [][Applies => Quantity(Returned) = Quantity(Top.state) + QuantityChange(Applied, Top.state)]_vars

\* dfs is entered with the state returned by a Paradoxical Outcome cast that
\* increased the quantity.
C27_Witness ==
  /\ Visiting
  /\ Len(stack) >= 2
  /\ Top.phase = "enter"
  /\ LET caller == stack[Len(stack) - 1]
         a == caller.actions[caller.next - 1]
     IN /\ a.kind = "cast"
        /\ a.name = "Paradoxical Outcome"
        /\ Quantity(Cur) > Quantity(caller.state)


(* ------------------------------ C28 ----------------------------------- *)

CardsInPlay(state) == Len(state.hand) + Len(state.battlefield)

\* C28: a cast of Paradoxical Outcome or Crop Rotation leaves |hand| +
\* |battlefield| at its value after the cast card has left the hand: the bounce
\* and replay, and the sacrifice and fetch, add and remove equally many cards.
C28_ScriptedEffectsPreserveCount ==
  [][Applies /\ Applied.kind = "cast" /\ Applied.name \in {"Paradoxical Outcome", "Crop Rotation"}
       => CardsInPlay(Returned) = CardsInPlay(Top.state) - 1]_vars

\* dfs is entered with the state returned by a Paradoxical Outcome that bounced
\* an artifact to the hand and replayed another one.
C28_Witness ==
  /\ Visiting
  /\ Len(stack) >= 2
  /\ Top.phase = "enter"
  /\ LET caller == stack[Len(stack) - 1]
         a == caller.actions[caller.next - 1]
     IN /\ a.kind = "cast"
        /\ a.name = "Paradoxical Outcome"
        /\ Len(Cur.hand) > Len(caller.state.hand) - 1
        /\ Len(Cur.battlefield) < Len(caller.state.battlefield)
        /\ Cur.battlefield # <<>>
        /\ \A k \in 1..Len(Cur.battlefield) : ~Cur.battlefield[k].tapped
        /\ \E k \in 1..Len(caller.state.battlefield) : caller.state.battlefield[k].tapped
        /\ CardsInPlay(Cur) = CardsInPlay(caller.state) - 1


(* ------------------------------ C29 ----------------------------------- *)

\* dfs has just been called on the start state of a root branch.
RootEntered == pc = "run" /\ Len(stack) = 1 /\ Top.phase = "enter" /\ Top.depth = 0

LandsOf(h) == SelectSeq(h, isLand)

\* The land of the root branch that was begun last.
ChosenLand == IF LandsOf(hand) = <<>> THEN "null" ELSE LandsOf(hand)[branch - 1]

BattlefieldNames(state) == [k \in 1..Len(state.battlefield) |-> state.battlefield[k].name]

\* max(1, k) root branches, one per land card in hand order, each starting with
\* an empty visited set, an empty pool, an empty cast history and an untapped
\* battlefield.
RootBranches ==
  /\ pc \in {"run", "done"} => Len(sim.landChoices) = Max(1, Len(LandsOf(hand)))
  /\ pc = "done" => branch = Max(1, Len(LandsOf(hand))) + 1
  /\ RootEntered =>
        /\ branch - 1 \in 1..Max(1, Len(LandsOf(hand)))
        /\ seen = {}
        /\ Cur.landName = ChosenLand
        /\ Cur.pool = emptyPool
        /\ Cur.cast = <<>>
        /\ \A k \in 1..Len(Cur.battlefield) : ~Cur.battlefield[k].tapped
        /\ ChosenLand # "null" => ChosenLand \in Range(BattlefieldNames(Cur))

IsFreeArtifact(c) == isArtifact(c) /\ parseCmc(manaCostOf(c)) = 0

\* C29 as stated: max(1, k) root branches, and every root state has all
\* mana-value-0 artifacts of the hand and the chosen land untapped on the
\* battlefield, an empty pool and an empty cast history.
C29_RootStates ==
  /\ RootBranches
  /\ RootEntered =>
        \A c \in Range(hand) :
          IsFreeArtifact(c) => CountIf(BattlefieldNames(Cur), LAMBDA x : x = c) >= CountIf(hand, LAMBDA x : x = c)

\* C29, amended: the battlefield of a root state holds the mana-value-0 artifacts
\* of the hand that are not lands, and the chosen land, and nothing else.
C29_RootStatesNonLand ==
  /\ RootBranches
  /\ RootEntered =>
        /\ SeqToBag(BattlefieldNames(Cur)) =
              SeqToBag(SelectSeq(hand, LAMBDA c : IsFreeArtifact(c) /\ ~isLand(c))
                       \o (IF ChosenLand = "null" THEN <<>> ELSE <<ChosenLand>>))
        /\ Cur.hand = SelectSeq(hand, LAMBDA c : ~isLand(c) /\ ~IsFreeArtifact(c))

\* The root state of the second land choice of a hand with a land that is an
\* artifact: the artifact land is not on the battlefield, the 0-cost artifact is.
C29_Witness ==
  /\ RootEntered
  /\ branch = 3
  /\ Cur.landName = "City of Brass"
  /\ "Seat of the Synod" \in Range(hand)
  /\ BattlefieldNames(Cur) = <<"Mox Sapphire", "Black Lotus", "City of Brass">>


(* ------------------------------ C30 ----------------------------------- *)

LandsOnBattlefield(state) == SelectSeq(BattlefieldNames(state), isLand)

\* C30: every state the search visits has at most one land on the battlefield,
\* the chosen land or the Tolarian Academy that Crop Rotation fetched for it,
\* and no land in the hand or in the cast history.
C30_OneLand ==
  Visiting =>
    /\ Len(LandsOnBattlefield(Cur)) <= 1
    /\ Cur.landName = "null" => LandsOnBattlefield(Cur) = <<>>
    /\ \A l \in Range(LandsOnBattlefield(Cur)) :
          \/ l = Cur.landName
          \/ l = "Tolarian Academy" /\ "Crop Rotation" \in Range(Cur.cast)
    /\ \A c \in Range(Cur.hand) \cup Range(Cur.cast) : ~isLand(c)

\* A state after Crop Rotation replaced the chosen land by Tolarian Academy:
\* one land on the battlefield, none in the hand.
C30_Witness ==
  /\ Visiting
  /\ Cur.landName = "City of Brass"
  /\ "Crop Rotation" \in Range(Cur.cast)
  /\ LandsOnBattlefield(Cur) = <<"Tolarian Academy">>


(* ------------------------------ C31 ----------------------------------- *)

\* The action applied to the state of frame j of the path (frame j + 1 holds the
\* state it returned; next was advanced when it was applied).
AppliedAt(j) == stack[j].actions[stack[j].next - 1]

PermsWithId(state, id) == SelectSeq(state.battlefield, LAMBDA c : c.id = id)

\* What applying tap action a to s makes of the battlefield: that instance
\* tapped, or removed for Black Lotus / Lotus Petal; all others as they were.
TappedOnce(a, s, t) ==
  /\ Len(PermsWithId(s, a.id)) = 1
  /\ ~PermsWithId(s, a.id)[1].tapped
  /\ IF a.name \in {"Black Lotus", "Lotus Petal"}
       THEN t.battlefield = SelectSeq(s.battlefield, LAMBDA c : c.id # a.id)
       ELSE /\ Len(t.battlefield) = Len(s.battlefield)
            /\ \A k \in 1..Len(s.battlefield) :
                  t.battlefield[k] = IF s.battlefield[k].id = a.id
                                       THEN [s.battlefield[k] EXCEPT !.tapped = TRUE]
                                       ELSE s.battlefield[k]

\* C31: along the path of the innermost call, tap actions are generated only for
\* untapped permanents, applying one taps (or, for a one-shot, removes) exactly
\* that instance, no instance is the source of two applied tap actions
\* (Starting Town's two alternatives included), and a tapped instance is never
\* untapped later on the path.
C31_EachInstanceTapsOnce ==
  Visiting =>
    /\ Top.phase = "loop" =>
          \A k \in 1..Len(Top.actions) :
            Top.actions[k].kind = "tap" =>
              \E c \in Range(Cur.battlefield) : c.id = Top.actions[k].id /\ ~c.tapped
    /\ \A j \in 1..(Len(stack) - 1) :
          AppliedAt(j).kind = "tap" => TappedOnce(AppliedAt(j), stack[j].state, stack[j + 1].state)
    /\ \A j, k \in 1..(Len(stack) - 1) :
          (j < k /\ AppliedAt(j).kind = "tap" /\ AppliedAt(k).kind = "tap")
            => AppliedAt(j).id # AppliedAt(k).id
    /\ \A j, k \in 1..Len(stack) :
          j < k =>
            \A c \in Range(stack[j].state.battlefield), d \in Range(stack[k].state.battlefield) :
              (c.id = d.id /\ c.tapped) => d.tapped

\* One of two Mox Sapphires is tapped and the other is not, one of two Lotus
\* Petals is gone, and Starting Town was tapped in one of its two ways.
C31_Witness ==
  /\ Visiting
  /\ Len(stack) >= 4
  /\ \E c, d \in Range(Cur.battlefield) :
        c.name = "Mox Sapphire" /\ d.name = "Mox Sapphire" /\ c.tapped /\ ~d.tapped
  /\ CountIf(BattlefieldNames(Cur), LAMBDA x : x = "Lotus Petal") = 1
  /\ \E c \in Range(Cur.battlefield) : c.name = "Starting Town" /\ c.tapped
  /\ \E j \in 1..(Len(stack) - 1) : AppliedAt(j).mode = "townFlex"


(* ------------------------------ C32 ----------------------------------- *)

\* The yields the claim lists: [field, n] by card name.
ListedYield(name) ==
  IF name = "Mox Pearl" THEN <<"W", 1>>
  ELSE IF name = "Mox Sapphire" THEN <<"U", 1>>
  ELSE IF name = "Mox Jet" THEN <<"B", 1>>
  ELSE IF name = "Mox Ruby" THEN <<"R", 1>>
  ELSE IF name = "Mox Emerald" THEN <<"G", 1>>
  ELSE IF name \in {"Mana Crypt", "Sol Ring"} THEN <<"C", 2>>
  ELSE IF name = "Mana Vault" THEN <<"C", 3>>
  ELSE IF name \in {"City of Brass", "Mana Confluence"} THEN <<"flex", 1>>
  ELSE IF name = "Black Lotus" THEN <<"flex", 3>>
  ELSE IF name = "Lotus Petal" THEN <<"flex", 1>>
  ELSE <<"C", 1>>

\* Everything but the pool that a tap action a leaves of s in t: hand, cast
\* history, chosen land, the other permanents; one entry more in the trace.
TapFrame(a, s, t) ==
  /\ t.hand = s.hand
  /\ t.cast = s.cast
  /\ t.landName = s.landName
  /\ Len(t.notes) = Len(s.notes) + 1
  /\ SubSeq(t.notes, 1, Len(s.notes)) = s.notes
  /\ TappedOnce(a, s, t)

\* C32 as stated: a tap action adds the listed yield of its permanent, every
\* land other than City of Brass and Mana Confluence yielding 1 C.
C32_TapAddsListedYield ==
  Visiting =>
    \A j \in 1..(Len(stack) - 1) :
      AppliedAt(j).kind = "tap" =>
        /\ TapFrame(AppliedAt(j), stack[j].state, stack[j + 1].state)
        /\ stack[j + 1].state.pool =
              addPool(stack[j].state.pool, ListedYield(AppliedAt(j).name)[1], ListedYield(AppliedAt(j).name)[2])

\* The pools a tap of the permanent named name can make of the pool of s.
YieldedPools(name, s) ==
  IF name = "Tolarian Academy"
    THEN {addPool(s.pool, "U", CountIf(BattlefieldNames(s), isArtifact))}
  ELSE IF name = "Starting Town"
    THEN {addPool(s.pool, "C", 1), addPool(s.pool, "flex", 1)}
  ELSE {addPool(s.pool, ListedYield(name)[1], ListedYield(name)[2])}

\* C32, amended: Tolarian Academy adds one U per artifact on the battlefield,
\* Starting Town adds 1 C or 1 flex, every other source adds its listed yield;
\* nothing else changes but the tapped permanent and the trace.
C32_TapAddsYield ==
  Visiting =>
    \A j \in 1..(Len(stack) - 1) :
      AppliedAt(j).kind = "tap" =>
        /\ TapFrame(AppliedAt(j), stack[j].state, stack[j + 1].state)
        /\ stack[j + 1].state.pool \in YieldedPools(AppliedAt(j).name, stack[j].state)

\* Black Lotus has just been sacrificed for 3 flex with cards in hand and
\* another untapped permanent on the battlefield.
C32_Witness ==
  /\ Visiting
  /\ Len(stack) >= 2
  /\ AppliedAt(Len(stack) - 1).kind = "tap"
  /\ AppliedAt(Len(stack) - 1).name = "Black Lotus"
  /\ Cur.pool.flex >= 3
  /\ Cur.hand # <<>>
  /\ \E c \in Range(Cur.battlefield) : ~c.tapped


(* ------------------------------ C33 ----------------------------------- *)

ArtifactsIn(state, isTapped) ==
  Len(SelectSeq(state.battlefield, LAMBDA c : isArtifact(c.name) /\ c.tapped = isTapped))

\* C33: tapping Tolarian Academy adds to U the number of artifacts on the
\* battlefield of the state it is applied to, tapped or not, and nothing to any
\* other pool field.
C33_AcademyYield ==
  Visiting =>
    \A j \in 1..(Len(stack) - 1) :
      (AppliedAt(j).kind = "tap" /\ AppliedAt(j).name = "Tolarian Academy") =>
        LET s == stack[j].state
            t == stack[j + 1].state
        IN /\ t.pool.U = s.pool.U + ArtifactsIn(s, TRUE) + ArtifactsIn(s, FALSE)
           /\ \A f \in PoolFields \ {"U"} : t.pool[f] = s.pool[f]

\* Academy has just been tapped for 2 U with a tapped Mox Sapphire and an
\* uncracked Black Lotus on the battlefield.
C33_Witness ==
  /\ Visiting
  /\ Len(stack) >= 3
  /\ AppliedAt(Len(stack) - 1).name = "Tolarian Academy"
  /\ AppliedAt(Len(stack) - 1).kind = "tap"
  /\ ArtifactsIn(stack[Len(stack) - 1].state, TRUE) = 1
  /\ "Black Lotus" \in Range(BattlefieldNames(Cur))
  /\ Cur.pool.U = 3


(* ------------------------------ C34 ----------------------------------- *)

\* The tap actions of the legal-action list of a state whose source is c.
TapActionsOf(state, c) ==
  SelectSeq(Actions(state), LAMBDA a : a.kind = "tap" /\ a.id = c.id)

\* C34 as stated: an untapped Tolarian Academy, City of Brass or Mana
\* Confluence contributes more than one tap action.
C34_SeveralActions ==
  Visiting =>
    \A c \in Range(Cur.battlefield) :
      (~c.tapped /\ c.name \in {"Tolarian Academy", "City of Brass", "Mana Confluence"})
        => Len(TapActionsOf(Cur, c)) > 1

\* C34, amended: each of the three contributes exactly one tap action; Starting
\* Town is the only permanent with two, one for C and one for flex.
C34_OneActionExceptStartingTown ==
  Visiting =>
    \A c \in Range(Cur.battlefield) :
      /\ (~c.tapped /\ c.name \in {"Tolarian Academy", "City of Brass", "Mana Confluence"})
           => Len(TapActionsOf(Cur, c)) = 1
      /\ (~c.tapped /\ c.name = "Starting Town")
           => /\ Len(TapActionsOf(Cur, c)) = 2
              /\ TapActionsOf(Cur, c)[1].field = "C"
              /\ TapActionsOf(Cur, c)[2].field = "flex"
      /\ c.name # "Starting Town" => Len(TapActionsOf(Cur, c)) <= 1

\* An untapped City of Brass among several untapped mana sources, its single
\* tap action in the list the loop runs over.
C34_Witness ==
  /\ Visiting
  /\ Top.phase = "loop"
  /\ \E c \in Range(Cur.battlefield) :
        /\ c.name = "City of Brass"
        /\ ~c.tapped
        /\ Len(SelectSeq(Top.actions, LAMBDA a : a.kind = "tap" /\ a.id = c.id)) = 1
  /\ Len(SelectSeq(Top.actions, LAMBDA a : a.kind = "tap")) >= 3


(* ------------------------------ C35 ----------------------------------- *)

\* C35: a Gitaxian Probe or Mental Misstep in the hand of a visited state has a
\* cast action in the legal-action list, whatever the pool holds, and the state
\* the action returns has the same pool.
C35_ForcedFreeAlwaysCastable ==
  Visiting =>
    \A i \in 1..Len(Cur.hand) :
      Cur.hand[i] \in {"Gitaxian Probe", "Mental Misstep"} =>
        \E k \in 1..Len(Actions(Cur)) :
          LET a == Actions(Cur)[k]
          IN /\ a.kind = "cast"
             /\ a.i = i
             /\ Run(a, Cur, nid, deck).s.pool = Cur.pool


(* ------------------------------ C36 ----------------------------------- *)

\* C36: every scored tier-3 state scores strictly higher than every scored state
\* of a lower tier; when a tier-3 state was scored the best tier is 3, and the
\* evaluation that returns reports tier 3 and KEEP.
C36_Tier3Dominates ==
  /\ \A s, u \in scores : (s.tier = 3 /\ u.tier < 3) => s.score > u.score
  /\ ((pc = "done" \/ (pc = "returned" /\ fout.op = "best")) /\ \E s \in scores : s.tier = 3)
       => best.tier = 3
  /\ (pc = "done" /\ \E s \in scores : s.tier = 3)
       => /\ result.stats.tier = 3
          /\ result.decision = "KEEP"

\* The lowest tier-3 score against the highest score below tier 3, all four
\* secondary detectors raised and both capped terms at their caps; the lower
\* state was scored first.
C36_Witness ==
  /\ pc = "returned"
  /\ fout.op = "best"
  /\ Scored(fin.visited[1]) = [score |-> 620, tier |-> 2]
  /\ Scored(fin.visited[2]) = [score |-> 1000, tier |-> 3]
  /\ best.tier = 3


(* ------------------------------ C37 ----------------------------------- *)

\* The mana symbols of a requirement, one entry per mana to pay.
PipsOf(req) ==
  Repeat("C", req.C) \o Repeat("W", req.W) \o Repeat("U", req.U) \o Repeat("B", req.B)
  \o Repeat("R", req.R) \o Repeat("G", req.G) \o Repeat("generic", req.generic)

\* The pool fields the payment rules allow for a symbol.
AllowedFields(pip) ==
  IF pip = "C" THEN {"C"}
  ELSE IF pip = "generic" THEN PoolFields
  ELSE {pip, "flex"}

\* Some assignment of one mana of the pool to each symbol, each from an allowed
\* field, no field giving more than it holds.
RECURSIVE Payable(_, _)
Payable(pips, pool) ==
  \/ pips = <<>>
  \/ \E k \in AllowedFields(Head(pips)) :
        pool[k] > 0 /\ Payable(Tail(pips), [pool EXCEPT ![k] = @ - 1])

\* C37: canPay returns true exactly when the cost is payable under the rules.
C37_CanPayExact ==
  (pc = "returned" /\ fout.op = "pay") =>
     (fout.can <=> Payable(PipsOf(parseManaCostReq(fin.manaCost)), fin.pool))

\* {C}, a colored symbol with no mana of its color in the pool, and a generic
\* symbol, paid from two C and one flex.
C37_Witness ==
  /\ pc = "returned" /\ fout.op = "pay"
  /\ parseManaCostReq(fin.manaCost) = [ZeroReq EXCEPT !.C = 1, !.B = 1, !.generic = 1]
  /\ fin.pool = [emptyPool EXCEPT !.C = 2, !.flex = 1]
  /\ fout.can


(* ------------------------------ C38 ----------------------------------- *)

\* C38: no call of dfs is deeper than 18; the call at depth 18 on a state not
\* seen before records the key, scores the state, updates best as at any other
\* depth and returns without applying an action, and the evaluation goes on.
C38_DepthBound ==
  [][(pc = "run" /\ stack # <<>>) =>
       /\ Top.depth <= 18
       /\ Top.depth = Len(stack) - 1
       /\ Top.depth = 18 => Top.phase = "enter"
       /\ (Top.depth = 18 /\ Key(Cur) \notin seen) =>
            /\ seen' = seen \cup {Key(Cur)}
            /\ scored' = scored + 1
            /\ best' = UpdateBest(best, Cur)
            /\ stack' = Pop
            /\ pc' = "run"]_vars

\* The call at depth 18 has just returned: its state has legal actions, none
\* was applied, and it is the best state.
C38_Witness ==
  /\ Visiting
  /\ Top.depth = 17
  /\ Top.phase = "loop"
  /\ Top.next > 1
  /\ LET child == Run(Top.actions[Top.next - 1], Top.state, nid, deck).s
     IN /\ best.notes = child.notes
        /\ Key(best.final) = Key(child)
        /\ Actions(child) # <<>>

====
